---- MODULE Spec2Model ----
(***************************************************************************)
(* Model of the cc26x2 event-priority dispatcher (events.rs, chip.rs,      *)
(* crt1.rs, cortex-m support.rs) and of the cc26x2 UART driver (uart.rs).  *)
(*                                                                         *)
(* A 64-bit word is modelled as the set of the indices of its set bits,    *)
(* so that shifts, complements and masks are computed bit for bit.         *)
(***************************************************************************)
EXTENDS Integers, Sequences, FiniteSets, TLC

(***************************************************************************)
(* Bounds of the model.                                                    *)
(***************************************************************************)
\* Number of hardware interrupt requests raised in one behaviour.
MaxIrqs == 3
\* Longest buffer of a TxRequest.
MaxTxLen == 3
\* Largest capacity of an RxRequest.
MaxRxCap == 3
\* Depth of the hardware TX FIFO and of the hardware RX FIFO.
TxFifoDepth == 2
RxFifoDepth == 2
\* Number of kernel clients of the UART driver and number of processes.
NumClients == 2
NumProcs == 2
\* Number of buffers the client of the radio owns.
NumBufs == 2
\* Number of radio-operation commands handed to the co-processor in one
\* behaviour.
MaxRadioOps == 3
\* Number of slices a process may share with a driver.
NumSlices == 2
\* Number of calls into the syscall drivers in one behaviour.
MaxHelOps == 2
MaxGpsTx == 3

(***************************************************************************)
(* 64-bit words as bit sets.                                               *)
(***************************************************************************)
\* Width of `static mut EVENTS: u64`.
WordBits == 64
BitIdx == 0 .. (WordBits - 1)
\* The literal 0b1.
One == {0}
\* x << n on a 64-bit word: bits shifted past the top are dropped.
Shl(x, n) == {i + n : i \in x} \cap BitIdx
\* x >> n on a 64-bit word.
Shr(x, n) == {i - n : i \in {j \in x : j >= n}}
\* !x on a 64-bit word.
Not(x) == BitIdx \ x
And(x, y) == x \cap y
Or(x, y) == x \cup y

(***************************************************************************)
(* enum EVENT_PRIORITY of events.rs.                                       *)
(***************************************************************************)
GPIO == 0
UART1 == 1
UART0 == 2
AON_RTC == 3
RTC == 4
I2C0 == 6
AON_PROG == 7
RF_CORE_HW == 8
RF_CMD_ACK == 9
RF_CORE_CPE0 == 10
RF_CORE_CPE1 == 11
OSC == 12
EVENT_PRIORITY ==
    {GPIO, UART1, UART0, AON_RTC, RTC, I2C0, AON_PROG, RF_CORE_HW,
     RF_CMD_ACK, RF_CORE_CPE0, RF_CORE_CPE1, OSC}

(***************************************************************************)
(* enum EVENT_PRIORITY of the helium-feather board (event_priority.rs):    *)
(* the variants it numbers differently from events.rs, and AUX_ADC.  The   *)
(* other variants have the numbers above.                                  *)
(***************************************************************************)
BOARD_GPIO == 14
BOARD_UART0 == 1
BOARD_UART1 == 2
BOARD_OSC == 8
BOARD_RF_CORE_HW == 12
AUX_ADC == 13
BOARD_EVENT_PRIORITY ==
    {BOARD_GPIO, BOARD_UART0, BOARD_UART1, AON_RTC, RTC, I2C0, AON_PROG,
     BOARD_OSC, RF_CMD_ACK, RF_CORE_CPE0, RF_CORE_CPE1, BOARD_RF_CORE_HW,
     AUX_ADC}

\* Option<T>: None is the empty set, Some(x) the singleton.
None == {}
Some(x) == {x}

\* The vector shims crt1.rs instantiates with generic_isr! and custom_isr!.
GenericSources == {GPIO, I2C0, AON_RTC}
CustomSources == {UART0, UART1}
Sources == GenericSources \cup CustomSources

\* The same shims where the priorities they name carry the numbers of the
\* board's enum.
BoardSources == {BOARD_GPIO, I2C0, AON_RTC, BOARD_UART0, BOARD_UART1}

VARIABLES
    EVENTS,      \* static mut EVENTS: u64, as a bit set
    primask,     \* PRIMASK: 1 = interrupts disabled
    nvic,        \* IRQ lines enabled at the interrupt controller
    pending,     \* IRQs latched while PRIMASK = 1
    pc,          \* position of thread mode
    val,         \* local `val` of set_event_flag / clear_event_flag
    event,       \* Option: the event the service loop is dispatching
    ready,       \* some process is ready
    irqs,        \* number of interrupt requests raised so far
    handled,     \* history: priorities dispatched in the current drain
    drainInit,   \* history: EVENTS when the current drain started
    isrInDrain,  \* history: an ISR ran since the current drain started
    owed,        \* history: priorities set by an ISR (outside the thread's
                 \* set_event_flag) and not dispatched since
    setRaised,   \* history: priorities set by ISRs during the thread's set_event_flag
    dup          \* history: priorities raised again while already pending

evVars ==
    <<EVENTS, primask, nvic, pending, pc, val, event, ready, irqs, handled,
      drainInit, isrInDrain, owed, setRaised, dup>>

VARIABLES
    tx,            \* UART.tx: MapCell<TxRequest>, an Option
    rx,            \* UART.rx: MapCell<RxRequest>, an Option
    receiving_word,\* UART.receiving_word
    imsc,          \* interrupt mask register: the interrupts enabled
    txFifo,        \* hardware: number of bytes in the TX FIFO
    rxFifo,        \* hardware: the bytes in the RX FIFO, oldest first
    uartRet,       \* history: ReturnCode of the last driver call ("" if none)
    txComplete,    \* history: completed TxRequest returned by the last driver
                   \* call, if that was handle_interrupt and returned one
    rxComplete,    \* history: likewise, the completed RxRequest
    drLog,         \* history: bytes written to the data register since the
                   \* TxRequest now or last armed was handed in
    txBuf,         \* history: the bytes of that TxRequest
    txDone,        \* history: number of times it was returned as completed
    rxStream,      \* history: bytes read from the data register into the
                   \* RxRequest now or last armed
    lastCall       \* history: the last driver call and, for an abort, the
                   \* Option it returned

uVars ==
    <<tx, rx, receiving_word, imsc, txFifo, rxFifo, uartRet, txComplete,
      rxComplete, drLog, txBuf, txDone, rxStream, lastCall>>

\* The kernel clients of the UART driver and the processes.
Clients == 1 .. NumClients
Procs == 1 .. NumProcs

VARIABLES
    clientTx,      \* TestClient.tx of each client: TakeCell<TxRequest>
    cmdRet,        \* history: ReturnCode of each process's last command
    txOwner,       \* history: the client whose request the peripheral holds
    served,        \* history: the client whose get_tx armed the peripheral
                   \* last
    delivered      \* history: the last tx_complete, as <<client it was
                   \* delivered to, client that owned the request>>

capVars == <<clientTx, cmdRet, txOwner, served, delivered>>

\* The buffers the client of the radio hands to transmit.
Bufs == 1 .. NumBufs

VARIABLES
    tx_client,           \* Radio.tx_client: OptionalCell<&TxClient>
    rx_client,           \* Radio.rx_client: OptionalCell<&RxClient>
    schedule_powerdown,  \* Radio.schedule_powerdown: Cell<bool>
    tx_buf,              \* Radio.tx_buf: TakeCell<[u8]>, the buffer in flight
    rx_buf,              \* Radio.rx_buf: TakeCell<[u8]>
    TX_BUF,              \* the TX staging buffer: the buffer it was filled
                         \* from and the number of bytes copied, zero beyond
    COMMAND_BUF,         \* the command record shared with the co-processor
    RX_PAYLOAD,          \* number of bytes of the read entry copied by rx_ok
    rfcOn,               \* co-processor: the domain is powered
    rfcOp,               \* co-processor: the radio operation it is running
    cpe0,                \* co-processor: flags raised in the CPE0 status word
    readEntry,           \* RX queue: length field of the entry READENTRY
                         \* points to
    sent,                \* history: number of send_sync calls
    accepted,            \* history: the buffers of the transmits that
                         \* returned Success, in order
    txEvents,            \* history: the transmit_event calls, in order
    rxEvent,             \* history: the last receive_event call
    cancelled,           \* history: stop or kill was acknowledged while the
                         \* buffer in tx_buf was in flight
    radioRet             \* history: the last call into the driver and what
                         \* it returned

radVarsButRet ==
    <<tx_client, rx_client, schedule_powerdown, tx_buf, rx_buf, TX_BUF,
      COMMAND_BUF, RX_PAYLOAD, rfcOn, rfcOp, cpe0, readEntry, sent, accepted,
      txEvents, rxEvent, cancelled>>

radVars ==
    <<tx_client, rx_client, schedule_powerdown, tx_buf, rx_buf, TX_BUF,
      COMMAND_BUF, RX_PAYLOAD, rfcOn, rfcOp, cpe0, readEntry, sent, accepted,
      txEvents, rxEvent, cancelled, radioRet>>

VARIABLES
    rxQueue,             \* RX data queue: the status of each entry in RX_BUF
    rfcEntry,            \* co-processor: the place it took for its current
                         \* entry at the last frame
    rxDelivered          \* history: the entries whose frame rx_ok has handed
                         \* to the RxClient since the queue was defined

rxqVars == <<rxQueue, rfcEntry, rxDelivered>>

VARIABLES
    app,                 \* Helium.app: Grant<App>, the App of each process
    kernel_tx,           \* Helium.kernel_tx: TakeCell<[u8]>, TRUE while the
                         \* kernel buffer is in the cell
    current_app,         \* Helium.current_app: OptionalCell<AppId>
    devBusy,             \* device: it holds a frame it has accepted
    apps,                \* Uart.apps: Grant<App>, the slices of each process
    helOps,              \* history: number of calls into the two drivers
    helRet               \* history: the last call into the Helium driver or
                         \* UartDriver::allow: its name, its caller, what it
                         \* returned, the processes whose grant it tried to
                         \* enter while already inside it, and the callbacks
                         \* it scheduled

helVars == <<app, kernel_tx, current_app, devBusy, apps, helOps, helRet>>

VARIABLES
    power_client,        \* Radio.power_client: OptionalCell<&PowerClient>
    tx_power,            \* Radio.tx_power: Cell<u16>
    pa_type,             \* Radio.pa_type: Cell<PaType>
    rfcMode,             \* co-processor: the mode set by RFCore::set_mode
    powerMode,           \* history: the argument of the last
                         \* power_mode_changed call on the power client
    powerSteps,          \* history: the Result of each step the last
                         \* power_up executed
    handed,              \* history: the last TX power value handed to the
                         \* co-processor and the command that carried it
    configured           \* history: the TX power value set_tx_power was last
                         \* called with

pwrVars ==
    <<power_client, tx_power, pa_type, rfcMode, powerMode, powerSteps,
      handed, configured>>

VARIABLES
    gps_state,           \* Gps.state: MapCell<State>
    gps_tx_request,      \* Gps.tx_request: TakeCell<TxRequest>, whether it
                         \* holds the request
    tx_in_progress,      \* Gps.tx_in_progress: OptionalCell<AppId>
    gpsUartTx,           \* the GPS UART: what the TxRequest armed in it
                         \* carries, if one is armed
    gpsUartRx,           \* the GPS UART: an RxRequest is armed
    gpsHanded,           \* history: what each transmit_buffer call of the
                         \* capsule carried, in order
    gpsRet               \* history: the last call into the capsule and what
                         \* it returned

gpsVars ==
    <<gps_state, gps_tx_request, tx_in_progress, gpsUartTx, gpsUartRx,
      gpsHanded, gpsRet>>

\* The state of the capsules, of the radio driver and of the syscall drivers.
xVars == <<capVars, radVars, rxqVars, helVars, pwrVars, gpsVars>>

\* What the transmit and receive paths of the radio driver never touch.
nonRadioVars == <<evVars, uVars, capVars, helVars, pwrVars, gpsVars>>

vars == <<evVars, uVars, xVars>>

(***************************************************************************)
(* support.rs: atomic, atomic_read, atomic_write.                          *)
(***************************************************************************)
\* PRIMASK after "cpsid i".
Cpsid == 1
\* PRIMASK after "cpsie i".
Cpsie == 0
\* PRIMASK on return from atomic(f) entered with PRIMASK = prior:
\* cpsid i; f(); cpsie i.  The prior state is not saved.
AtomicExit(prior) == Cpsie
\* PRIMASK on return from atomic_read / atomic_write (one atomic(f) each).
AtomicRwExit(prior) == AtomicExit(prior)

(***************************************************************************)
(* events.rs.                                                              *)
(***************************************************************************)
\* EVENT_PRIORITY::from_u8(count), for the enum with the given variants
from_u8(variants, count) == IF count \in variants THEN Some(count) ELSE None

\* The while loop of next_pending: shift right until bit 0 is set.
\* The result is <<"ok", Option>> or <<"panic", None>> (expect on an unmapped count).
RECURSIVE NextPendingLoop(_, _, _)
NextPendingLoop(variants, event_flags, count) ==
    IF event_flags = {} THEN <<"ok", None>>
    ELSE IF And(event_flags, One) # {}
         THEN IF from_u8(variants, count) = None THEN <<"panic", None>>
              ELSE <<"ok", from_u8(variants, count)>>
         ELSE NextPendingLoop(variants, Shr(event_flags, 1), count + 1)

\* next_pending with the count starting at 1 instead of 0.
next_pending_skip_first(event_flags) ==
    NextPendingLoop(EVENT_PRIORITY, event_flags, 1)

next_pending(event_flags) == NextPendingLoop(EVENT_PRIORITY, event_flags, 0)

\* next_pending as the board calls it, returning
\* Option<event_priority::EVENT_PRIORITY>: the same loop decoding with the
\* board's enum.
next_pending_board(event_flags) ==
    NextPendingLoop(BOARD_EVENT_PRIORITY, event_flags, 0)

\* set_event_flag: val |= 0b1 << priority
SetFlagValue(v, priority) == Or(v, Shl(One, priority))

\* A clear mask that also takes out the bit above the priority.
ClearMaskWider(priority) == Shl(Not(One), priority + 1)

\* clear_event_flag: val &= !0b1 << priority.  Unary ! binds tighter than <<,
\* so the mask is (!0b1) << priority.
ClearMask(priority) == Shl(Not(One), priority)
ClearFlagValue(v, priority) == And(v, ClearMask(priority))

\* has_event
has_event(event_flags) == event_flags # {}

(***************************************************************************)
(* crt1.rs: vector shims.                                                  *)
(***************************************************************************)
\* set_event_flag_from_isr, the flag setter the shims call: it sets the bit
\* of the priority it is given; setting a bit already set changes nothing.
set_event_flag_from_isr(v, priority) == Or(v, Shl(One, priority))

\* generic_isr! calls disable_specific_nvic after setting the flag;
\* custom_isr! calls $isr() in that place and has no disable_specific_nvic.
\* The two custom shims are those of UART0 and UART1, which carry the numbers
\* 1 and 2 in either enum.  The bodies of uart0_isr and uart1_isr are not
\* among the sources and the design gives an ISR body no part in masking
\* the line, so the line of a custom shim stays as it was.
ShimDisablesLine(p) == p \notin CustomSources

\* The shim of source p runs to completion in handler mode: its flag setter
\* reads and writes EVENTS with no thread instruction between.  p is the
\* number of $priority, a variant of the event_priority module the shims
\* name; that module is not among the sources, so the shims are run under
\* the numbering of events.rs (Sources) and under that of the board's
\* event_priority.rs (BoardSources).
RunIsr(p) ==
    /\ EVENTS' = set_event_flag_from_isr(EVENTS, p)
    /\ primask' = AtomicRwExit(primask)
    /\ nvic' = IF ShimDisablesLine(p) THEN nvic \ {p} ELSE nvic
    /\ owed' = IF pc \in {"boot_read", "boot_write"} THEN owed ELSE owed \cup {p}
    /\ isrInDrain' = TRUE
    /\ setRaised' = IF pc \in {"boot_read", "boot_write"}
                    THEN setRaised \cup {p} ELSE setRaised
    /\ dup' = IF p \in EVENTS THEN dup \cup {p} ELSE dup
    /\ pc' = IF pc = "asleep" THEN "atomic_cpsie" ELSE pc
    /\ UNCHANGED <<val, event, ready, handled, drainInit>>

\* The hardware raises the interrupt request of source p.  With PRIMASK = 0
\* the shim runs at once; with PRIMASK = 1 the request is latched (and wakes
\* a sleeping CPU).
Irq(p) ==
    /\ pc # "panic"
    /\ p \in nvic
    /\ p \notin pending
    /\ irqs < MaxIrqs
    /\ irqs' = irqs + 1
    /\ IF primask = Cpsie
       THEN RunIsr(p) /\ UNCHANGED pending
       ELSE /\ pending' = pending \cup {p}
            /\ pc' = IF pc = "asleep" THEN "atomic_cpsie" ELSE pc
            /\ UNCHANGED <<EVENTS, primask, nvic, val, event, ready, handled,
                           drainInit, isrInDrain, owed, setRaised, dup>>
    /\ UNCHANGED <<uVars, xVars>>

\* A latched request is taken as soon as PRIMASK is 0 again.
TakePending(p) ==
    /\ pc # "panic"
    /\ primask = Cpsie
    /\ p \in pending
    /\ pending' = pending \ {p}
    /\ RunIsr(p)
    /\ UNCHANGED irqs
    /\ UNCHANGED <<uVars, xVars>>

\* Thread mode executes its next instruction only when no latched request
\* can be taken.
ThreadRuns == ~(primask = Cpsie /\ pending # {})

(***************************************************************************)
(* helium-feather main.rs: reset_handler calls                             *)
(* events::set_event_flag(UART0) in thread mode, then the kernel loop.     *)
(***************************************************************************)
\* set_event_flag: let mut val = atomic_read(&EVENTS);
SetEventFlagRead ==
    /\ pc = "boot_read" /\ ThreadRuns
    /\ val' = EVENTS
    /\ primask' = AtomicRwExit(primask)
    /\ pc' = "boot_write"
    /\ UNCHANGED <<EVENTS, nvic, pending, event, ready, irqs, handled,
                   drainInit, isrInDrain, owed, setRaised, dup>>
    /\ UNCHANGED <<uVars, xVars>>

\* set_event_flag: val |= 0b1 << priority; atomic_write(&mut EVENTS, val);
SetEventFlagWrite(priority) ==
    /\ pc = "boot_write" /\ ThreadRuns
    /\ EVENTS' = SetFlagValue(val, priority)
    /\ primask' = AtomicRwExit(primask)
    /\ pc' = "boot_done"
    /\ dup' = IF priority \in EVENTS THEN dup \cup {priority} ELSE dup
    /\ UNCHANGED <<nvic, pending, val, event, ready, irqs, handled,
                   drainInit, isrInDrain, owed, setRaised>>
    /\ UNCHANGED <<uVars, xVars>>

\* A call of service_pending_interrupts starts a drain.
StartDrain ==
    /\ drainInit' = EVENTS
    /\ handled' = <<>>
    /\ isrInDrain' = FALSE

\* board_kernel.kernel_loop(...)
KernelLoopStart ==
    /\ pc = "boot_done" /\ ThreadRuns
    /\ pc' = "next_pending"
    /\ StartDrain
    /\ UNCHANGED <<EVENTS, primask, nvic, pending, val, event, ready, irqs,
                   owed, setRaised, dup>>
    /\ UNCHANGED <<uVars, xVars>>

(***************************************************************************)
(* chip.rs: service_pending_interrupts.                                    *)
(***************************************************************************)
\* while let Some(event) = events::next_pending()
ServiceNext ==
    /\ pc = "next_pending" /\ ThreadRuns
    /\ LET r == next_pending(EVENTS)
       IN  /\ event' = r[2]
           /\ pc' = IF r[1] = "panic" THEN "panic"
                    ELSE IF r[2] = None THEN "procs" ELSE "clear_read"
    /\ primask' = AtomicRwExit(primask)
    /\ UNCHANGED <<EVENTS, nvic, pending, val, ready, irqs, handled,
                   drainInit, isrInDrain, owed, setRaised, dup>>
    /\ UNCHANGED <<uVars, xVars>>

\* clear_event_flag: let mut val = atomic_read(&EVENTS);
ClearEventFlagRead ==
    /\ pc = "clear_read" /\ ThreadRuns
    /\ val' = EVENTS
    /\ primask' = AtomicRwExit(primask)
    /\ pc' = "clear_write"
    /\ UNCHANGED <<EVENTS, nvic, pending, event, ready, irqs, handled,
                   drainInit, isrInDrain, owed, setRaised, dup>>
    /\ UNCHANGED <<uVars, xVars>>

\* clear_event_flag: val &= !0b1 << priority; atomic_write(&mut EVENTS, val);
ClearEventFlagWrite ==
    /\ pc = "clear_write" /\ ThreadRuns
    /\ \E p \in event : EVENTS' = ClearFlagValue(val, p)
    /\ primask' = AtomicRwExit(primask)
    /\ pc' = "dispatch"
    /\ UNCHANGED <<nvic, pending, val, event, ready, irqs, handled,
                   drainInit, isrInDrain, owed, setRaised, dup>>
    /\ UNCHANGED <<uVars, xVars>>

\* The arms of `match event` that call a handler or do nothing; RF_CORE_HW
\* and every other variant panic.
HandledPriorities ==
    {GPIO, AON_RTC, I2C0, UART0, UART1, RF_CMD_ACK, RF_CORE_CPE0,
     RF_CORE_CPE1, OSC, AON_PROG}

\* The handler of a drained source re-enables its line at the controller
\* (uart.rs handle_interrupt: nvic.clear_pending(); nvic.enable()).
HandlerEnables(p) == IF p \in Sources THEN {p} ELSE {}

\* match event { ... }
Dispatch ==
    /\ pc = "dispatch" /\ ThreadRuns
    /\ \E p \in event :
         IF p \in HandledPriorities
         THEN /\ pc' = "next_pending"
              /\ nvic' = nvic \cup HandlerEnables(p)
              /\ handled' = Append(handled, p)
              /\ owed' = owed \ {p}
         ELSE /\ pc' = "panic"
              /\ UNCHANGED <<nvic, handled, owed>>
    /\ UNCHANGED <<EVENTS, primask, pending, val, event, ready, irqs,
                   drainInit, isrInDrain, setRaised, dup>>
    /\ UNCHANGED <<uVars, xVars>>

(***************************************************************************)
(* helium-feather main.rs: service_pending_events.  pending_event is bound *)
(* once, by the next_pending before the loop; `while let Some(event) =     *)
(* pending_event` then tests that same value on every iteration.           *)
(***************************************************************************)
\* let pending_event: Option<event_priority::EVENT_PRIORITY> =
\*     events::next_pending();
BoardServiceNext ==
    /\ pc = "next_pending" /\ ThreadRuns
    /\ LET r == next_pending_board(EVENTS)
       IN  /\ event' = r[2]
           /\ pc' = IF r[1] = "panic" THEN "panic"
                    ELSE IF r[2] = None THEN "procs" ELSE "clear_read"
    /\ primask' = AtomicRwExit(primask)
    /\ UNCHANGED <<EVENTS, nvic, pending, val, ready, irqs, handled,
                   drainInit, isrInDrain, owed, setRaised, dup>>
    /\ UNCHANGED <<uVars, xVars>>

\* The arms of the board's `match event` that do not panic; RF_CORE_HW and,
\* under `_`, RTC, OSC and AUX_ADC panic.
BoardHandledPriorities ==
    {BOARD_GPIO, AON_RTC, I2C0, BOARD_UART0, BOARD_UART1, RF_CMD_ACK,
     RF_CORE_CPE0, RF_CORE_CPE1, AON_PROG}

\* Of the sources with a vector shim only UART0 has a handler in its arm
\* (capsules::uart::handle_irq, which ends in handle_interrupt); the arms of
\* GPIO, AON_RTC, I2C0 and UART1 are empty.
BoardHandlerEnables(p) == IF p = BOARD_UART0 THEN {BOARD_UART0} ELSE {}

\* The history of handlers with p invoked: an invocation that repeats the
\* last one is recorded once.
Invoked(h, p) == IF h # <<>> /\ h[Len(h)] = p THEN h ELSE Append(h, p)

\* match event { ... } of the board, then the loop test again: pending_event
\* is still Some(event), so the body runs again from clear_event_flag.
BoardDispatch ==
    /\ pc = "dispatch" /\ ThreadRuns
    /\ \E p \in event :
         IF p \in BoardHandledPriorities
         THEN /\ pc' = "clear_read"
              /\ nvic' = nvic \cup BoardHandlerEnables(p)
              /\ handled' = Invoked(handled, p)
              /\ owed' = owed \ {p}
         ELSE /\ pc' = "panic"
              /\ UNCHANGED <<nvic, handled, owed>>
    /\ UNCHANGED <<EVENTS, primask, pending, val, event, ready, irqs,
                   drainInit, isrInDrain, setRaised, dup>>
    /\ UNCHANGED <<uVars, xVars>>

(***************************************************************************)
(* The kernel loop around the chip: processes run, then, inside            *)
(* chip.atomic, the CPU sleeps if no interrupt is pending and no process   *)
(* is ready.                                                               *)
(***************************************************************************)
RunProcesses ==
    /\ pc = "procs" /\ ThreadRuns
    /\ ready' \in BOOLEAN
    /\ pc' = "atomic_cpsid"
    /\ UNCHANGED <<EVENTS, primask, nvic, pending, val, event, irqs, handled,
                   drainInit, isrInDrain, owed, setRaised, dup>>
    /\ UNCHANGED <<uVars, xVars>>

\* Cc26X2::atomic -> support::atomic: cpsid i
AtomicEnter ==
    /\ pc = "atomic_cpsid" /\ ThreadRuns
    /\ primask' = Cpsid
    /\ pc' = "check"
    /\ UNCHANGED <<EVENTS, nvic, pending, val, event, ready, irqs, handled,
                   drainInit, isrInDrain, owed, setRaised, dup>>
    /\ UNCHANGED <<uVars, xVars>>

\* has_pending_interrupts -> has_event -> atomic_read (a nested atomic)
SleepCheck ==
    /\ pc = "check" /\ ThreadRuns
    /\ primask' = AtomicRwExit(primask)
    /\ pc' = IF ~has_event(EVENTS) /\ ~ready THEN "wfi" ELSE "atomic_cpsie"
    /\ UNCHANGED <<EVENTS, nvic, pending, val, event, ready, irqs, handled,
                   drainInit, isrInDrain, owed, setRaised, dup>>
    /\ UNCHANGED <<uVars, xVars>>

\* sleep -> wfi: falls through if an enabled request is latched, else the
\* CPU sleeps until the next interrupt request.
Wfi ==
    /\ pc = "wfi" /\ ThreadRuns
    /\ pc' = IF pending \cap nvic # {} THEN "atomic_cpsie" ELSE "asleep"
    /\ UNCHANGED <<EVENTS, primask, nvic, pending, val, event, ready, irqs,
                   handled, drainInit, isrInDrain, owed, setRaised, dup>>
    /\ UNCHANGED <<uVars, xVars>>

\* support::atomic: cpsie i on the way out; the loop then calls
\* service_pending_interrupts again.
AtomicLeave ==
    /\ pc = "atomic_cpsie" /\ ThreadRuns
    /\ primask' = AtomicExit(primask)
    /\ pc' = "next_pending"
    /\ StartDrain
    /\ UNCHANGED <<EVENTS, nvic, pending, val, event, ready, irqs, owed,
                   setRaised, dup>>
    /\ UNCHANGED <<uVars, xVars>>

(***************************************************************************)
(* kernel::hil::uart request objects.                                      *)
(***************************************************************************)
\* b'\n' and b'\0'
NL == 10
NUL == 0
\* Bytes a client transmits and bytes the line delivers.
TxBytes == {65, 66}
RxBytes == {NL, 65}

SeqsUpTo(S, n) == UNION {[1 .. k -> S] : k \in 0 .. n}
TheOf(opt) == CHOOSE x \in opt : TRUE

\* A TxRequest: the bytes to send and the index of the next one.
TxRequest(buf) == [buf |-> buf, index |-> 0]
TxRequests == {TxRequest(b) : b \in SeqsUpTo(TxBytes, MaxTxLen)}
\* TxRequest::request_completed: index = len
TxRequestCompleted(t) == t.index >= Len(t.buf)
\* TxRequest::pop: <<Option<item>, request afterwards>>
TxPop(t) ==
    IF t.index < Len(t.buf)
    THEN <<Some(t.buf[t.index + 1]), [t EXCEPT !.index = @ + 1]>>
    ELSE <<None, t>>

\* An RxRequest of capacity cap: buf holds the bytes pushed, so its index is
\* the length of buf.
RxRequest(cap) == [buf |-> <<>>, cap |-> cap, new_line_return |-> FALSE]
RxRequests == {RxRequest(c) : c \in 1 .. MaxRxCap}
RxIndex(r) == Len(r.buf)
\* rx.req.request_completed: index = len
RxRequestCompleted(r) == RxIndex(r) >= r.cap
\* rx.req.push: stores the byte at the index and advances the index.  The
\* design puts no bound on a push: a '\n' at position j of a request of
\* capacity c leaves index = j + 2 for every j < c, the last one included.
RxPush(r, byte) == [r EXCEPT !.buf = Append(@, byte)]

(***************************************************************************)
(* uart.rs: the cc26x2 UART driver (one instance, UART0).                  *)
(***************************************************************************)
\* tx_fifo_not_full / rx_fifo_not_empty: the flag register
tx_fifo_not_full(level) == level < TxFifoDepth
rx_fifo_not_empty(fifo) == fifo # <<>>

\* transmit_buffer: if the FIFO has room and the request is not completed,
\* pop one byte and write it to the data register.
TransmitBufferWrite(t, level) ==
    IF tx_fifo_not_full(level) /\ ~TxRequestCompleted(t)
    THEN LET r == TxPop(t)
         IN  [req |-> r[2],
              written |-> IF r[1] = None THEN <<>> ELSE <<TheOf(r[1])>>]
    ELSE [req |-> t, written |-> <<>>]

\* handle_interrupt, TX part: write at most one byte, then report whether
\* the request is completed.
HandleInterruptTx(t, level) ==
    LET w == IF tx_fifo_not_full(level) /\ ~TxRequestCompleted(t)
             THEN LET r == TxPop(t)
                  IN  [req |-> r[2],
                       written |-> IF r[1] = None THEN <<>>
                                   ELSE <<TheOf(r[1])>>]
             ELSE [req |-> t, written |-> <<>>]
    IN  [req |-> w.req, written |-> w.written,
         complete |-> TxRequestCompleted(w.req)]

\* An RX loop that reads one byte and does not store it.
RxLoopDropsByte(r, fifo, read) ==
    IF ~rx_fifo_not_empty(fifo)
    THEN [req |-> r, fifo |-> fifo, read |-> read]
    ELSE [req |-> r, fifo |-> Tail(fifo), read |-> Append(read, Head(fifo))]

\* handle_interrupt, RX part: the loop `while self.rx_fifo_not_empty()`.
\* read is the sequence of bytes taken from the data register.
RECURSIVE RxLoop(_, _, _)
RxLoop(r, fifo, read) ==
    IF ~rx_fifo_not_empty(fifo)
    THEN [req |-> r, fifo |-> fifo, read |-> read]
    ELSE LET byte == Head(fifo)
             r1 == IF byte = NL THEN [r EXCEPT !.new_line_return = TRUE] ELSE r
             r2 == RxPush(r1, byte)
         IN  IF RxRequestCompleted(r2) \/ r2.new_line_return
             THEN [req |-> IF r2.new_line_return THEN RxPush(r2, NUL) ELSE r2,
                   fifo |-> Tail(fifo), read |-> Append(read, byte)]
             ELSE RxLoop(r2, Tail(fifo), Append(read, byte))

\* handle_interrupt, RX part, completing only on a full buffer.
HandleInterruptRxFullOnly(r, fifo) ==
    LET l == RxLoop(r, fifo, <<>>)
    IN  [req |-> l.req, fifo |-> l.fifo, read |-> l.read,
         complete |-> RxRequestCompleted(l.req)]

HandleInterruptRx(r, fifo) ==
    LET l == RxLoop(r, fifo, <<>>)
    IN  [req |-> l.req, fifo |-> l.fifo, read |-> l.read,
         complete |-> RxRequestCompleted(l.req) \/ l.req.new_line_return]

evVarsButNvic ==
    <<EVENTS, primask, pending, pc, val, event, ready, irqs, handled,
      drainInit, isrInDrain, owed, setRaised, dup>>

\* handle_interrupt: re-enable the line, serve the armed RxRequest, serve
\* the armed TxRequest, return the completed requests.  (The final write to
\* ICR clears the raw interrupt status, which is not part of the state.)
HandleInterrupt ==
    LET rxArmed == rx # None
        rxRes == HandleInterruptRx(TheOf(rx), rxFifo)
        rxDone == rxArmed /\ rxRes.complete
        imsc1 == IF rxDone THEN imsc \ {"RX", "RX_TIMEOUT"} ELSE imsc
        txArmed == tx # None
        txRes == HandleInterruptTx(TheOf(tx), txFifo)
        txFin == txArmed /\ txRes.complete
    IN  /\ uartRet # "panic"
        /\ nvic' = nvic \cup {UART0}
        /\ rx' = IF rxArmed /\ ~rxDone THEN Some(rxRes.req) ELSE None
        /\ rxComplete' = IF rxDone THEN Some(rxRes.req) ELSE None
        /\ rxFifo' = IF rxArmed THEN rxRes.fifo ELSE rxFifo
        /\ rxStream' = IF rxArmed THEN rxStream \o rxRes.read ELSE rxStream
        /\ tx' = IF txArmed /\ ~txFin THEN Some(txRes.req) ELSE None
        /\ txComplete' = IF txFin THEN Some(txRes.req) ELSE None
        /\ txFifo' = IF txArmed THEN txFifo + Len(txRes.written) ELSE txFifo
        /\ drLog' = IF txArmed THEN drLog \o txRes.written ELSE drLog
        /\ txDone' = IF txFin THEN txDone + 1 ELSE txDone
        /\ imsc' = IF txFin THEN imsc1 \ {"TX", "EOT"} ELSE imsc1
        /\ uartRet' = ""
        /\ lastCall' = [op |-> "handle_interrupt", ret |-> None]
        /\ UNCHANGED <<receiving_word, txBuf>>
        /\ UNCHANGED <<evVarsButNvic, xVars>>

\* transmit_buffer
TransmitBuffer(t) ==
    LET w == TransmitBufferWrite(t, txFifo)
    IN  /\ uartRet # "panic"
        /\ imsc' = imsc \cup {"TX", "EOT"}
        /\ txFifo' = txFifo + Len(w.written)
        /\ tx' = Some(w.req)
        /\ uartRet' = "SUCCESS"
        /\ txComplete' = None
        /\ rxComplete' = None
        /\ drLog' = w.written
        /\ txBuf' = t.buf
        /\ txDone' = 0
        /\ lastCall' = [op |-> "transmit_buffer", ret |-> None]
        /\ UNCHANGED <<rx, receiving_word, rxFifo, rxStream>>
        /\ UNCHANGED <<evVars, xVars>>

\* transmit_abort
TransmitAbort ==
    /\ uartRet # "panic"
    /\ tx' = None
    /\ lastCall' = [op |-> "transmit_abort", ret |-> tx]
    /\ uartRet' = ""
    /\ txComplete' = None
    /\ rxComplete' = None
    /\ UNCHANGED <<rx, receiving_word, imsc, txFifo, rxFifo, drLog, txBuf,
                   txDone, rxStream>>
    /\ UNCHANGED <<evVars, xVars>>

\* receive_buffer without the busy check.
ReceiveBufferNoBusy(r) ==
    /\ uartRet # "panic"
    /\ imsc' = imsc \cup {"RX", "RX_TIMEOUT"}
    /\ rx' = Some(r)
    /\ rxStream' = <<>>
    /\ uartRet' = "SUCCESS"
    /\ txComplete' = None
    /\ rxComplete' = None
    /\ lastCall' = [op |-> "receive_buffer", ret |-> None]
    /\ UNCHANGED <<tx, receiving_word, txFifo, rxFifo, drLog, txBuf, txDone>>
    /\ UNCHANGED <<evVars, xVars>>

\* receive_buffer
ReceiveBuffer(r) ==
    /\ uartRet # "panic"
    /\ IF rx # None \/ receiving_word
       THEN /\ uartRet' = "EBUSY"
            /\ UNCHANGED <<rx, imsc, rxStream>>
       ELSE /\ imsc' = imsc \cup {"RX", "RX_TIMEOUT"}
            /\ rx' = Some(r)
            /\ rxStream' = <<>>
            /\ uartRet' = "SUCCESS"
    /\ txComplete' = None
    /\ rxComplete' = None
    /\ lastCall' = [op |-> "receive_buffer", ret |-> None]
    /\ UNCHANGED <<tx, receiving_word, txFifo, rxFifo, drLog, txBuf, txDone>>
    /\ UNCHANGED <<evVars, xVars>>

\* receive_word
ReceiveWord ==
    /\ uartRet # "panic"
    /\ IF rx # None \/ receiving_word
       THEN /\ uartRet' = "EBUSY"
            /\ UNCHANGED receiving_word
       ELSE /\ receiving_word' = TRUE
            /\ uartRet' = "SUCCESS"
    /\ txComplete' = None
    /\ rxComplete' = None
    /\ lastCall' = [op |-> "receive_word", ret |-> None]
    /\ UNCHANGED <<tx, rx, imsc, txFifo, rxFifo, drLog, txBuf, txDone, rxStream>>
    /\ UNCHANGED <<evVars, xVars>>

\* receive_abort that looks at the armed request without taking it.
ReceiveAbortKeepsArmed ==
    /\ uartRet # "panic"
    /\ lastCall' = [op |-> "receive_abort", ret |-> rx]
    /\ uartRet' = ""
    /\ txComplete' = None
    /\ rxComplete' = None
    /\ UNCHANGED <<tx, rx, receiving_word, imsc, txFifo, rxFifo, drLog, txBuf,
                   txDone, rxStream>>
    /\ UNCHANGED <<evVars, xVars>>

\* receive_abort
ReceiveAbort ==
    /\ uartRet # "panic"
    /\ rx' = None
    /\ lastCall' = [op |-> "receive_abort", ret |-> rx]
    /\ uartRet' = ""
    /\ txComplete' = None
    /\ rxComplete' = None
    /\ UNCHANGED <<tx, receiving_word, imsc, txFifo, rxFifo, drLog, txBuf,
                   txDone, rxStream>>
    /\ UNCHANGED <<evVars, xVars>>

\* UART::write: put a byte in the data register.  A byte written while the
\* TX FIFO is full is not taken by the FIFO.
Write(c) ==
    /\ uartRet # "panic"
    /\ Len(drLog) < TxFifoDepth
    /\ txFifo' = IF tx_fifo_not_full(txFifo) THEN txFifo + 1 ELSE txFifo
    /\ drLog' = Append(drLog, c)
    /\ uartRet' = ""
    /\ txComplete' = None
    /\ rxComplete' = None
    /\ lastCall' = [op |-> "write", ret |-> None]
    /\ UNCHANGED <<tx, rx, receiving_word, imsc, rxFifo, txBuf, txDone,
                   rxStream>>
    /\ UNCHANGED <<evVars, xVars>>

\* UART::read: pull a byte out of the RX FIFO (the data register reads 0
\* from an empty FIFO).
Read ==
    /\ uartRet # "panic"
    /\ rxFifo' = IF rx_fifo_not_empty(rxFifo) THEN Tail(rxFifo) ELSE rxFifo
    /\ lastCall' = [op |-> "read", ret |-> None,
                    word |-> IF rx_fifo_not_empty(rxFifo) THEN Head(rxFifo)
                             ELSE 0]
    /\ uartRet' = ""
    /\ txComplete' = None
    /\ rxComplete' = None
    /\ UNCHANGED <<tx, rx, receiving_word, imsc, txFifo, drLog, txBuf, txDone,
                   rxStream>>
    /\ UNCHANGED <<evVars, xVars>>

\* uart::Parameters, as far as configure tests them, and the baud rate it
\* divides by
Parameters ==
    [stop_bits : {"One", "Two"}, parity : {"None", "Odd", "Even"},
     hw_flow_control : BOOLEAN, baud_rate : {0, 115200}]

\* configure: unsupported parameters are refused; otherwise disable() masks
\* every interrupt before the line is set up again, and set_baud_rate
\* divides by the baud rate: a rate of 0 is a panic, the interrupts already
\* masked.  The armed requests stay where they are.
Configure(params) ==
    /\ uartRet # "panic"
    /\ IF \/ params.stop_bits # "One"
          \/ params.parity # "None"
          \/ params.hw_flow_control
       THEN /\ uartRet' = "ENOSUPPORT"
            /\ UNCHANGED imsc
       ELSE /\ imsc' = {}
            /\ uartRet' = IF params.baud_rate = 0 THEN "panic" ELSE "SUCCESS"
    /\ txComplete' = None
    /\ rxComplete' = None
    /\ lastCall' = [op |-> "configure", ret |-> None]
    /\ UNCHANGED <<tx, rx, receiving_word, txFifo, rxFifo, drLog, txBuf,
                   txDone, rxStream>>
    /\ UNCHANGED <<evVars, xVars>>

\* transmit_word: the word goes to the data register when the TX FIFO has
\* room and no TxRequest is armed.
TransmitWord(word) ==
    /\ uartRet # "panic"
    /\ Len(drLog) < TxFifoDepth
    /\ IF tx_fifo_not_full(txFifo) /\ tx = None
       THEN /\ txFifo' = txFifo + 1
            /\ drLog' = Append(drLog, word)
            /\ uartRet' = "SUCCESS"
       ELSE /\ uartRet' = "FAIL"
            /\ UNCHANGED <<txFifo, drLog>>
    /\ txComplete' = None
    /\ rxComplete' = None
    /\ lastCall' = [op |-> "transmit_word", ret |-> None]
    /\ UNCHANGED <<tx, rx, receiving_word, imsc, rxFifo, txBuf, txDone,
                   rxStream>>
    /\ UNCHANGED <<evVars, xVars>>

\* Hardware: the transmitter shifts out the oldest byte of the TX FIFO.
HwTxDrain ==
    /\ txFifo > 0
    /\ txFifo' = txFifo - 1
    /\ UNCHANGED <<tx, rx, receiving_word, imsc, rxFifo, uartRet, txComplete,
                   rxComplete, drLog, txBuf, txDone, rxStream, lastCall>>
    /\ UNCHANGED <<evVars, xVars>>

\* Hardware: a byte arrives on the line and enters the RX FIFO.
HwRxByte(b) ==
    /\ Len(rxFifo) < RxFifoDepth
    /\ rxFifo' = Append(rxFifo, b)
    /\ UNCHANGED <<tx, rx, receiving_word, imsc, txFifo, uartRet, txComplete,
                   rxComplete, drLog, txBuf, txDone, rxStream, lastCall>>
    /\ UNCHANGED <<evVars, xVars>>

UInit ==
    /\ tx = None
    /\ rx = None
    /\ receiving_word = FALSE
    /\ imsc = {}
    /\ txFifo = 0
    /\ rxFifo = <<>>
    /\ uartRet = ""
    /\ txComplete = None
    /\ rxComplete = None
    /\ drLog = <<>>
    /\ txBuf = <<>>
    /\ txDone = 0
    /\ rxStream = <<>>
    /\ lastCall = [op |-> "", ret |-> None]

\* Any client of the transmit side: it may arm and abort at any time.
UartTxNext ==
    \/ \E t \in TxRequests : TransmitBuffer(t)
    \/ TransmitAbort
    \/ \E word \in TxBytes : TransmitWord(word)
    \/ \E c \in TxBytes : Write(c)
    \/ HandleInterrupt
    \/ HwTxDrain

\* A client that hands TxRequests to the driver and never aborts one.
ClientTxNext ==
    \/ \E t \in TxRequests : TransmitBuffer(t)
    \/ HandleInterrupt
    \/ HwTxDrain

\* Any client of the receive side, and bytes arriving on the line.
UartRxNext ==
    \/ \E r \in RxRequests : ReceiveBuffer(r)
    \/ ReceiveWord
    \/ ReceiveAbort
    \/ Read
    \/ \E params \in Parameters : Configure(params)
    \/ HandleInterrupt
    \/ \E b \in RxBytes : HwRxByte(b)

(***************************************************************************)
(* capsules/src/uart.rs: the UART capsule, with the TestClient of          *)
(* launchxl uart_test.rs as the kernel clients.                            *)
(***************************************************************************)
\* MSG1 = b"Hello, World!\r\n"
MSG1 == <<72, 101, 108, 108, 111, 44, 32, 87, 111, 114, 108, 100, 33, 13, 10>>

\* TestClient::has_tx_request
has_tx_request(c) == TRUE

\* Uart::send_new and Uart::receive_new
send_new(len) == "ENOSUPPORT"
receive_new(len) == "ENOSUPPORT"

\* UartDriver::command: the ReturnCode of command cmd_num
UartDriverCommand(cmd_num, arg1) ==
    CASE cmd_num = 0 -> "SUCCESS"
      [] cmd_num = 1 -> send_new(arg1)
      [] cmd_num = 2 -> receive_new(arg1)
      [] cmd_num = 3 -> "SUCCESS"
      [] OTHER -> "ENOSUPPORT"

\* Command numbers a process may pass: the four defined and one undefined.
CmdNums == 0 .. 4

\* Process p issues command(cmd_num, arg1); command 3 calls receive_abort.
Command(p, cmd_num, arg1) ==
    /\ cmdRet' = [cmdRet EXCEPT ![p] = UartDriverCommand(cmd_num, arg1)]
    /\ IF cmd_num = 3
       THEN /\ rx' = None
            /\ lastCall' = [op |-> "receive_abort", ret |-> rx]
            /\ uartRet' = ""
            /\ txComplete' = None
            /\ rxComplete' = None
       ELSE UNCHANGED <<rx, lastCall, uartRet, txComplete, rxComplete>>
    /\ UNCHANGED <<tx, receiving_word, imsc, txFifo, rxFifo, drLog, txBuf,
                   txDone, rxStream>>
    /\ UNCHANGED <<clientTx, txOwner, served, delivered>>
    /\ UNCHANGED <<radVars, rxqVars, helVars, pwrVars, gpsVars>>
    /\ UNCHANGED evVars

\* The last two entries of a history with one more entry.
Last2(h, c) == IF h = <<>> THEN <<c>> ELSE <<h[Len(h)], c>>

\* UartDriver::handle_interrupt(peripheral_index, clients) with client c
\* passed as `clients`: the peripheral's handle_interrupt; tx_complete on c if
\* a request completed; then, if c has a request, get_tx and write_buffer.
DriverHandleInterrupt(c) ==
    LET rxArmed == rx # None
        rxRes == HandleInterruptRx(TheOf(rx), rxFifo)
        rxDone == rxArmed /\ rxRes.complete
        imsc1 == IF rxDone THEN imsc \ {"RX", "RX_TIMEOUT"} ELSE imsc
        txArmed == tx # None
        txRes == HandleInterruptTx(TheOf(tx), txFifo)
        txFin == txArmed /\ txRes.complete
        imsc2 == IF txFin THEN imsc1 \ {"TX", "EOT"} ELSE imsc1
        tx1 == IF txArmed /\ ~txFin THEN Some(txRes.req) ELSE None
        fifo1 == IF txArmed THEN txFifo + Len(txRes.written) ELSE txFifo
        dr1 == IF txArmed THEN drLog \o txRes.written ELSE drLog
        \* clients.tx_complete(tx): index = 0; self.tx.put(Some(tx))
        cl1 == IF txFin
               THEN [clientTx EXCEPT ![c] = Some([txRes.req EXCEPT !.index = 0])]
               ELSE clientTx
        \* clients.get_tx(): self.tx.take()
        polled == has_tx_request(c)
        got == IF polled THEN cl1[c] ELSE None
        cl2 == IF polled THEN [cl1 EXCEPT ![c] = None] ELSE cl1
        armNow == got # None
        \* request.index = 0; write_buffer(request) -> transmit_buffer
        w == TransmitBufferWrite([TheOf(got) EXCEPT !.index = 0], fifo1)
    IN  /\ uartRet # "panic"
        /\ nvic' = nvic \cup {UART0}
        /\ rx' = IF rxArmed /\ ~rxDone THEN Some(rxRes.req) ELSE None
        /\ rxComplete' = IF rxDone THEN Some(rxRes.req) ELSE None
        /\ rxFifo' = IF rxArmed THEN rxRes.fifo ELSE rxFifo
        /\ rxStream' = IF rxArmed THEN rxStream \o rxRes.read ELSE rxStream
        /\ tx' = IF armNow THEN Some(w.req) ELSE tx1
        /\ txFifo' = IF armNow THEN fifo1 + Len(w.written) ELSE fifo1
        /\ imsc' = IF armNow THEN imsc2 \cup {"TX", "EOT"} ELSE imsc2
        /\ txComplete' = IF txFin THEN Some(txRes.req) ELSE None
        /\ drLog' = IF armNow THEN w.written ELSE dr1
        /\ txBuf' = IF armNow THEN TheOf(got).buf ELSE txBuf
        /\ txDone' = IF armNow THEN 0 ELSE IF txFin THEN txDone + 1 ELSE txDone
        /\ uartRet' = IF armNow THEN "SUCCESS" ELSE ""
        /\ lastCall' = [op |-> IF armNow THEN "transmit_buffer"
                               ELSE "handle_interrupt", ret |-> None]
        /\ clientTx' = cl2
        /\ txOwner' = IF armNow THEN Some(c) ELSE IF txFin THEN None ELSE txOwner
        /\ served' = IF armNow THEN Last2(served, c) ELSE served
        /\ delivered' = IF txFin THEN <<c, TheOf(txOwner)>> ELSE delivered
        /\ UNCHANGED <<receiving_word, cmdRet>>
        /\ UNCHANGED <<radVars, rxqVars, helVars, pwrVars, gpsVars>>
        /\ UNCHANGED evVarsButNvic

CapInit ==
    /\ clientTx = [c \in Clients |-> Some(TxRequest(MSG1))]
    /\ cmdRet = [p \in Procs |-> ""]
    /\ txOwner = None
    /\ served = <<>>
    /\ delivered = <<>>

\* The UART capsule: interrupts served by UartDriver::handle_interrupt on
\* behalf of either client, commands of the processes, and the transmitter.
DriverNext ==
    \/ \E c \in Clients : DriverHandleInterrupt(c)
    \/ \E p \in Procs, n \in CmdNums, len \in 0 .. MaxTxLen : Command(p, n, len)
    \/ HwTxDrain

\* Any client of both directions; the bytes carry no meaning here, so one
\* value stands for all of them.
UartNext ==
    \/ \E t \in {TxRequest(b) : b \in SeqsUpTo({65}, MaxTxLen)} : TransmitBuffer(t)
    \/ TransmitAbort
    \/ \E r \in RxRequests : ReceiveBuffer(r)
    \/ ReceiveWord
    \/ ReceiveAbort
    \/ HandleInterrupt
    \/ HwTxDrain
    \/ HwRxByte(65)

(***************************************************************************)
(* The multimode radio driver (chips/cc26x2/src/radio/multimode.rs), the   *)
(* sub-GHz driver's transmit (chips/cc26x2/src/radio/subghz.rs) and the    *)
(* radio co-processor they drive.                                          *)
(***************************************************************************)
\* Longest frame transmit accepts.
MaxFrameLen == 240
\* Lengths of the static buffers RX_BUF and RX_PAYLOAD.
RxBufLen == 600
RxPayloadLen == 255
\* Command numbers: CMD_PROP_TX, CMD_PROP_RX, and the direct commands stop
\* and abort.
CmdPropTx == 14337
CmdPropRx == 14338
CmdStop == 1026
CmdAbort == 1025
\* Status the co-processor writes into a command record that has ended.
StatusDone == 1024

\* Frame lengths a client asks transmit to send, around the limit.
FrameLens == {1, MaxFrameLen, MaxFrameLen + 1}
\* Length fields of the RX queue entries the co-processor finishes.
EntryLens == {30}

\* Number of entries define_queue lays out in RX_BUF.
NumEntries == 2
Entries == 1 .. NumEntries
\* The entry READENTRY points to: the first one of the queue; nothing in
\* the driver moves it.
ReadIdx == 1
\* A place outside RX_BUF: the co-processor may take it for its current
\* entry as well as any entry of the queue.
Stray == 0
\* RX_BUF after it is zeroed: every entry reads as pending.
ZeroQueue == [i \in Entries |-> "pending"]

\* COMMAND_BUF after it is zeroed.
ZeroCmd == [command_no |-> 0, status |-> 0, packet_len |-> 0, packet_pointer |-> None]
\* TX_BUF after it is zeroed.
ZeroTxBuf == [src |-> None, len |-> 0]

\* The flags of the CPE0 interrupt status word the driver dispatches on.
Cpe0Flags == {"cmd_done", "last_cmd_done", "rx_ok", "rx_nok", "rx_entry_done", "rx_buf_full"}

\* RFCore::send_sync followed by RFCore::wait: the co-processor takes the
\* command only while it is powered and runs no other operation; the caller
\* learns which through the Result.
SendSyncOk(ok) == ok => (rfcOn /\ rfcOp = "idle")

\* RFCore::send_direct: a direct command is acknowledged with a success code
\* only by a powered co-processor.
SendDirectOk(ok) == ok => rfcOn

\* PaType
PaTypes == {"None", "Internal", "Skyworks"}

\* The highest TX power value set_pa_restriction lets through for the
\* Skyworks amplifier.
SkyworksMax == 20557

\* Radio::new: tx_power starts at 0xFFFF.
TxPowerNew == 65535

\* The TX power values a caller asks for: 16-bit values around the limit.
TxPowers == {0, SkyworksMax, SkyworksMax + 1, TxPowerNew}

\* set_pa_restriction without the Skyworks case.
set_pa_restriction_none(power, pa) == power

\* Radio::set_pa_restriction: the value it leaves in tx_power.
set_pa_restriction(power, pa) ==
    IF pa = "Skyworks" /\ power > SkyworksMax THEN SkyworksMax ELSE power

\* The steps of power_up that act on the co-processor, in the order of the
\* code: RFCore::enable, RFCore::start_rat, RFCore::setup (CMD_SETUP) and
\* set_radio_fs (CMD_FS).
PowerStepNames == <<"enable", "start_rat", "setup", "set_radio_fs">>
PowerStep == {PowerStepNames[i] : i \in 1 .. Len(PowerStepNames)}

\* What the co-processor makes of one power-up: whether each step succeeds.
\* Nothing succeeds on a domain that did not come up.
PowerOutcomes ==
    {o \in [PowerStep -> BOOLEAN] :
        ~o["enable"] => \A s \in PowerStep : ~o[s]}

\* The outcomes in which the domain either does not come up or comes up with
\* its timer and its setup, whatever becomes of CMD_FS.
BootOutcomes ==
    {o \in PowerOutcomes :
        o["start_rat"] = o["enable"] /\ o["setup"] = o["enable"]}

\* A panic has unwound the kernel out of the radio driver (the slice of
\* replace_and_send_tx_buffer): no call into the driver follows.
RadioPanicked == radioRet.op = "transmit" /\ radioRet.rc = "panic"

\* The steps power_up and run_tests share: set_mode, enable, start_rat,
\* set_pa_restriction, setup with tx_power, set_radio_fs. No step looks at
\* the Result of the one before, and CMD_FS's Result is dropped by .ok().
PowerUpSteps(o) ==
    /\ rfcMode' = "BLE"
    /\ rfcOn' = o["enable"]
    /\ tx_power' = set_pa_restriction(tx_power, pa_type)
    /\ handed' = Some([cmd |-> "CMD_SETUP", power |-> tx_power'])
    /\ powerSteps' = Some(o)
    /\ UNCHANGED <<power_client, pa_type, configured>>

\* Radio::power_up: the steps, then the power client is told the radio is
\* on.
power_up(o) ==
    /\ PowerUpSteps(o)
    /\ powerMode' = IF power_client # None THEN Some(TRUE) ELSE powerMode

\* Radio::initialize. CMD_FS is a radio operation, which the co-processor
\* takes only when it runs no other.
initialize(o) ==
    /\ ~RadioPanicked
    /\ o["set_radio_fs"] => rfcOp = "idle"
    /\ power_up(o)
    /\ radioRet' = [op |-> "initialize", rc |-> "", buf |-> None]
    /\ UNCHANGED <<tx_client, rx_client, schedule_powerdown, tx_buf, rx_buf,
                   TX_BUF, COMMAND_BUF, RX_PAYLOAD, rfcOp, cpe0, readEntry,
                   sent, accepted, txEvents, rxEvent, cancelled>>
    /\ UNCHANGED <<evVars, uVars, capVars, helVars, gpsVars>>
    /\ UNCHANGED rxqVars

\* RFCore::disable, seen from the co-processor: the domain is disabled,
\* which ends whatever it runs.
rfc_disable == "idle"

\* Radio::power_down.
power_down ==
    /\ ~RadioPanicked
    /\ rfcOp' = rfc_disable
    /\ rfcOn' = FALSE
    /\ powerMode' = IF power_client # None THEN Some(FALSE) ELSE powerMode
    /\ radioRet' = [op |-> "power_down", rc |-> "", buf |-> None]
    /\ UNCHANGED <<power_client, tx_power, pa_type, rfcMode, powerSteps,
                   handed, configured>>
    /\ UNCHANGED <<tx_client, rx_client, schedule_powerdown, tx_buf, rx_buf,
                   TX_BUF, COMMAND_BUF, RX_PAYLOAD, cpe0, readEntry, sent,
                   accepted, txEvents, rxEvent, cancelled>>
    /\ UNCHANGED <<evVars, uVars, capVars, helVars, gpsVars>>
    /\ UNCHANGED rxqVars

\* Radio::reset: power_down, then power_up, which runs on an idle
\* co-processor and overwrites what power_down told the power client.
reset(o) ==
    /\ ~RadioPanicked
    /\ rfcOp' = rfc_disable
    /\ power_up(o)
    /\ radioRet' = [op |-> "reset", rc |-> "", buf |-> None]
    /\ UNCHANGED <<tx_client, rx_client, schedule_powerdown, tx_buf, rx_buf,
                   TX_BUF, COMMAND_BUF, RX_PAYLOAD, cpe0, readEntry, sent,
                   accepted, txEvents, rxEvent, cancelled>>
    /\ UNCHANGED <<evVars, uVars, capVars, helVars, gpsVars>>
    /\ UNCHANGED rxqVars

\* Direct command 0x0010: set the TX power.
CmdSetTxPower == 16

\* RadioConfig::set_tx_power: store the value, restrict it, hand it to the
\* co-processor in a direct command.
set_tx_power(power, ok) ==
    /\ ~RadioPanicked
    /\ SendDirectOk(ok)
    /\ tx_power' = set_pa_restriction(power, pa_type)
    /\ handed' = Some([cmd |-> "CMD_SET_TX_POWER", power |-> tx_power'])
    /\ configured' = power
    /\ radioRet' = [op |-> "set_tx_power",
                    rc |-> IF ok THEN "SUCCESS" ELSE "FAIL", buf |-> None,
                    opcode |-> CmdSetTxPower]
    /\ UNCHANGED <<power_client, pa_type, rfcMode, powerMode, powerSteps>>
    /\ UNCHANGED radVarsButRet
    /\ UNCHANGED <<evVars, uVars, capVars, helVars, gpsVars>>
    /\ UNCHANGED rxqVars

\* RadioConfig::set_frequency: a CMD_FS in a record of its own, its Result
\* turned into the ReturnCode.
set_frequency(ok) ==
    /\ ~RadioPanicked
    /\ SendSyncOk(ok)
    /\ radioRet' = [op |-> "set_frequency",
                    rc |-> IF ok THEN "SUCCESS" ELSE "FAIL", buf |-> None]
    /\ UNCHANGED radVarsButRet
    /\ UNCHANGED nonRadioVars
    /\ UNCHANGED rxqVars

\* TestType::from_u8: Tx = 0, Rx = 1; the values run_tests is called with
\* are these and one that names no test.
TestTx == 0
TestRx == 1
Tests == {TestTx, TestRx, 2}

\* The packet test_radio_tx builds in a local of its own: no buffer of a
\* client, and gone when the call returns.
StackPacket == 0

\* packet_len of the command test_radio_tx sends.
TestPacketLen == 20

\* Radio::run_tests(test): the steps of power_up, without a word to the power
\* client, then test_radio_tx or test_radio_rx, which zero COMMAND_BUF and
\* hand one command to the co-processor, its Result dropped by .ok().
\* test_radio_rx defines the queue in RX_BUF without zeroing it.
run_tests(test, o, ok) ==
    /\ ~RadioPanicked
    /\ o["set_radio_fs"] => rfcOp = "idle"
    /\ PowerUpSteps(o)
    /\ UNCHANGED powerMode
    /\ IF test \in {TestTx, TestRx}
       THEN /\ ok => (o["enable"] /\ rfcOp = "idle")
            /\ sent < MaxRadioOps
            /\ sent' = sent + 1
            /\ COMMAND_BUF' =
                 IF test = TestTx
                 THEN [command_no |-> CmdPropTx, status |-> 0,
                       packet_len |-> TestPacketLen,
                       packet_pointer |-> Some(StackPacket)]
                 ELSE [command_no |-> CmdPropRx, status |-> 0,
                       packet_len |-> 0, packet_pointer |-> None]
            /\ rfcOp' = IF ~ok THEN rfcOp
                        ELSE IF test = TestTx THEN "tx" ELSE "rx"
            /\ IF test = TestRx
               THEN /\ rxQueue' = ZeroQueue
                    /\ rxDelivered' = {}
                    /\ UNCHANGED rfcEntry
               ELSE UNCHANGED rxqVars
       ELSE /\ UNCHANGED <<sent, COMMAND_BUF, rfcOp>>
            /\ UNCHANGED rxqVars
    /\ radioRet' = [op |-> "run_tests", rc |-> "", buf |-> None]
    /\ UNCHANGED <<tx_client, rx_client, schedule_powerdown, tx_buf, rx_buf,
                   TX_BUF, RX_PAYLOAD, cpe0, readEntry, accepted, txEvents,
                   rxEvent, cancelled>>
    /\ UNCHANGED <<evVars, uVars, capVars, helVars, gpsVars>>

\* The buffers a client may pass to transmit: the first is as long as the
\* HELIUM_BUF of the boards, every other one shorter.
BufLen(buf) == IF buf = 1 THEN 240 ELSE 100

\* Radio::replace_and_send_tx_buffer: the state it leaves behind, as
\* <<TX_BUF, tx_buf, COMMAND_BUF, "ok" or "panic">>.  COMMAND_BUF and
\* TX_BUF are zeroed first; the slice buf[0..len] is a panic when the buffer
\* is shorter than len, before tx_buf is put and the command is built.
replace_and_send_tx_buffer(buf, len) ==
    IF len > BufLen(buf)
    THEN <<ZeroTxBuf, tx_buf, ZeroCmd, "panic">>
    ELSE <<[src |-> Some(buf), len |-> len],
           Some(buf),
           [command_no |-> CmdPropTx, status |-> 0, packet_len |-> len % 256,
            packet_pointer |-> Some(buf)],
           "ok">>

\* A transmit that does not look at tx_buf before it replaces it.
transmitBusyOverwrites(buf, frame_len, ok) ==
    /\ ~RadioPanicked
    /\ buf \notin tx_buf
    /\ SendSyncOk(ok)
    /\ IF frame_len > MaxFrameLen
       THEN /\ radioRet' = [op |-> "transmit", rc |-> "ENOSUPPORT", buf |-> Some(buf)]
            /\ UNCHANGED <<tx_buf, TX_BUF, COMMAND_BUF, rfcOp, sent, accepted, cancelled>>
       ELSE /\ sent < MaxRadioOps
            /\ LET r == replace_and_send_tx_buffer(buf, frame_len) IN
                 /\ TX_BUF' = r[1]
                 /\ tx_buf' = r[2]
                 /\ COMMAND_BUF' = r[3]
                 /\ IF r[4] = "panic"
                    THEN /\ radioRet' = [op |-> "transmit", rc |-> "panic",
                                         buf |-> None]
                         /\ UNCHANGED <<rfcOp, sent, accepted, cancelled>>
                    ELSE /\ rfcOp' = IF ok THEN "tx" ELSE rfcOp
                         /\ sent' = sent + 1
                         /\ accepted' = Append(accepted, buf)
                         /\ cancelled' = FALSE
                         /\ radioRet' = [op |-> "transmit", rc |-> "SUCCESS",
                                         buf |-> None]
    /\ UNCHANGED <<tx_client, rx_client, schedule_powerdown, rx_buf,
                   RX_PAYLOAD, rfcOn, cpe0, readEntry, txEvents, rxEvent>>
    /\ UNCHANGED nonRadioVars
    /\ UNCHANGED rxqVars

\* Radio::transmit of the multimode driver. The caller passes a buffer it
\* owns, so never the one in tx_buf; ok is the Result of handing the command
\* to the co-processor, which transmit discards.
transmit(buf, frame_len, ok) ==
    /\ ~RadioPanicked
    /\ buf \notin tx_buf
    /\ SendSyncOk(ok)
    /\ IF frame_len > MaxFrameLen
       THEN /\ radioRet' = [op |-> "transmit", rc |-> "ENOSUPPORT", buf |-> Some(buf)]
            /\ UNCHANGED <<tx_buf, TX_BUF, COMMAND_BUF, rfcOp, sent, accepted, cancelled>>
       ELSE IF tx_buf = None
       THEN /\ sent < MaxRadioOps
            /\ LET r == replace_and_send_tx_buffer(buf, frame_len) IN
                 /\ TX_BUF' = r[1]
                 /\ tx_buf' = r[2]
                 /\ COMMAND_BUF' = r[3]
                 /\ IF r[4] = "panic"
                    THEN /\ radioRet' = [op |-> "transmit", rc |-> "panic",
                                         buf |-> None]
                         /\ UNCHANGED <<rfcOp, sent, accepted, cancelled>>
                    ELSE /\ rfcOp' = IF ok THEN "tx" ELSE rfcOp
                         /\ sent' = sent + 1
                         /\ accepted' = Append(accepted, buf)
                         /\ cancelled' = FALSE
                         /\ radioRet' = [op |-> "transmit", rc |-> "SUCCESS",
                                         buf |-> None]
       ELSE /\ radioRet' = [op |-> "transmit", rc |-> "EBUSY", buf |-> Some(buf)]
            /\ UNCHANGED <<tx_buf, TX_BUF, COMMAND_BUF, rfcOp, sent, accepted, cancelled>>
    /\ UNCHANGED <<tx_client, rx_client, schedule_powerdown, rx_buf,
                   RX_PAYLOAD, rfcOn, cpe0, readEntry, txEvents, rxEvent>>
    /\ UNCHANGED nonRadioVars
    /\ UNCHANGED rxqVars

\* Radio::transmit of the sub-GHz driver, which has a tx_buf of its own that
\* nothing ever fills: it hands the buffer straight back.
subghz_transmit(buf, frame_len) ==
    /\ ~RadioPanicked
    /\ buf \notin tx_buf
    /\ radioRet' = [op |-> "subghz_transmit", rc |-> "SUCCESS", buf |-> Some(buf)]
    /\ UNCHANGED <<tx_client, rx_client, schedule_powerdown, tx_buf, rx_buf,
                   TX_BUF, COMMAND_BUF, RX_PAYLOAD, rfcOn, rfcOp, cpe0,
                   readEntry, sent, accepted, txEvents, rxEvent, cancelled>>
    /\ UNCHANGED nonRadioVars
    /\ UNCHANGED rxqVars

\* Radio::receive, that is Radio::start_rx_cmd. The DataQueue the command
\* points to is a local of start_rx_cmd: once the call has returned, what
\* the co-processor finds there, and so where it writes a frame, is open.
receive(ok) ==
    /\ ~RadioPanicked
    /\ SendSyncOk(ok)
    /\ sent < MaxRadioOps
    /\ COMMAND_BUF' = [command_no |-> CmdPropRx, status |-> 0, packet_len |-> 0,
                       packet_pointer |-> None]
    /\ rfcOp' = IF ok THEN "rx" ELSE rfcOp
    /\ sent' = sent + 1
    /\ radioRet' = [op |-> "receive", rc |-> "SUCCESS", buf |-> None]
    /\ UNCHANGED <<tx_client, rx_client, schedule_powerdown, tx_buf, rx_buf,
                   TX_BUF, RX_PAYLOAD, rfcOn, cpe0, accepted, txEvents,
                   rxEvent, cancelled>>
    /\ UNCHANGED nonRadioVars
    /\ rxQueue' = ZeroQueue
    /\ readEntry' = 0
    /\ rxDelivered' = {}
    /\ UNCHANGED rfcEntry

\* The body command_done and tx_done share, run when flag is dispatched.
TxCompletion(flag, name) ==
    /\ ~RadioPanicked
    /\ flag \in cpe0
    /\ cpe0' = cpe0 \ {flag}
    /\ rfcOn' = IF schedule_powerdown THEN FALSE ELSE rfcOn
    /\ rfcOp' = IF schedule_powerdown THEN "idle" ELSE rfcOp
    /\ schedule_powerdown' = FALSE
    /\ tx_buf' = None
    /\ txEvents' =
         IF tx_buf # None /\ tx_client # None
         THEN Append(txEvents, [buf |-> TheOf(tx_buf), result |-> "SUCCESS",
                                cancelled |-> cancelled])
         ELSE txEvents
    /\ cancelled' = FALSE
    /\ radioRet' = [op |-> name, rc |-> "", buf |-> None]
    /\ powerMode' = IF schedule_powerdown /\ power_client # None
                    THEN Some(FALSE) ELSE powerMode
    /\ UNCHANGED <<power_client, tx_power, pa_type, rfcMode, powerSteps,
                   handed, configured>>
    /\ UNCHANGED <<tx_client, rx_client, rx_buf, TX_BUF, COMMAND_BUF,
                   RX_PAYLOAD, readEntry, sent, accepted, rxEvent>>
    /\ UNCHANGED <<evVars, uVars, capVars, helVars, gpsVars>>
    /\ UNCHANGED rxqVars

\* RFCoreClient::command_done.
command_done == TxCompletion("cmd_done", "command_done")

\* RFCoreClient::tx_done.
tx_done == TxCompletion("last_cmd_done", "tx_done")

\* The body the four receive handlers share once rx_buf holds the buffer
\* they put there: take it and hand it to the RxClient.
RxDelivery(flag, name, rbuf, payload) ==
    /\ ~RadioPanicked
    /\ flag \in cpe0
    /\ cpe0' = cpe0 \ {flag}
    /\ RX_PAYLOAD' = payload
    /\ rx_buf' = None
    /\ rxEvent' =
         IF rx_client # None
         THEN Some([ev |-> name, buf |-> rbuf.name, frame_len |-> rbuf.len,
                    crc_valid |-> TRUE, result |-> "SUCCESS"])
         ELSE rxEvent
    /\ radioRet' = [op |-> name, rc |-> "", buf |-> None]
    /\ UNCHANGED <<tx_client, rx_client, schedule_powerdown, tx_buf, TX_BUF,
                   COMMAND_BUF, rfcOn, rfcOp, readEntry, sent, accepted,
                   txEvents, cancelled>>
    /\ UNCHANGED nonRadioVars
    /\ UNCHANGED <<rxQueue, rfcEntry>>

\* RFCoreClient::rx_ok: copies the read entry into RX_PAYLOAD and delivers
\* RX_PAYLOAD.
rx_ok ==
    /\ RxDelivery("rx_ok", "rx_ok", [name |-> "RX_PAYLOAD", len |-> RxPayloadLen],
                  readEntry)
    /\ rxDelivered' = IF rx_client # None THEN rxDelivered \cup {ReadIdx}
                                           ELSE rxDelivered

\* RFCoreClient::rx_nok, rx_buf_full and rx_entry_done: deliver RX_BUF.
rx_nok ==
    /\ RxDelivery("rx_nok", "rx_nok", [name |-> "RX_BUF", len |-> RxBufLen], RX_PAYLOAD)
    /\ UNCHANGED rxDelivered

rx_buf_full ==
    /\ RxDelivery("rx_buf_full", "rx_buf_full", [name |-> "RX_BUF", len |-> RxBufLen],
                  RX_PAYLOAD)
    /\ UNCHANGED rxDelivered

rx_entry_done ==
    /\ RxDelivery("rx_entry_done", "rx_entry_done",
                  [name |-> "RX_BUF", len |-> RxBufLen], RX_PAYLOAD)
    /\ UNCHANGED rxDelivered

\* The co-processor ends the operation it runs on a stop or abort command:
\* it writes the status and raises the command-done flags.
RfcEndOp(flags) ==
    /\ rfcOp' = "idle"
    /\ cpe0' = cpe0 \cup flags
    /\ COMMAND_BUF' = [COMMAND_BUF EXCEPT !.status = StatusDone]

\* The body of stop, send_stop_command and send_kill_command: one direct
\* command, its Result turned into the ReturnCode. The history keeps the
\* opcode sent and the operation that was running.
DirectCommand(name, opcode, ok) ==
    /\ ~RadioPanicked
    /\ SendDirectOk(ok)
    /\ IF ok /\ rfcOp # "idle"
       THEN RfcEndOp({"cmd_done"})
       ELSE UNCHANGED <<rfcOp, cpe0, COMMAND_BUF>>
    /\ cancelled' = (cancelled \/ (ok /\ tx_buf # None))
    /\ radioRet' = [op |-> name, rc |-> IF ok THEN "SUCCESS" ELSE "FAIL",
                    buf |-> None, opcode |-> opcode, during |-> rfcOp]
    /\ UNCHANGED <<tx_client, rx_client, schedule_powerdown, tx_buf, rx_buf,
                   TX_BUF, RX_PAYLOAD, rfcOn, readEntry, sent, accepted,
                   txEvents, rxEvent>>
    /\ UNCHANGED nonRadioVars
    /\ UNCHANGED rxqVars

\* RadioConfig::stop.
stop(ok) == DirectCommand("stop", CmdStop, ok)

\* RadioConfig::send_stop_command.
send_stop_command(ok) == DirectCommand("send_stop_command", CmdStop, ok)

\* RadioConfig::send_kill_command.
send_kill_command(ok) == DirectCommand("send_kill_command", CmdAbort, ok)

\* A call that only answers a question about the driver.
Query(name, answer) ==
    /\ ~RadioPanicked
    /\ radioRet' = [op |-> name, rc |-> answer, buf |-> None]
    /\ UNCHANGED <<tx_client, rx_client, schedule_powerdown, tx_buf, rx_buf,
                   TX_BUF, COMMAND_BUF, RX_PAYLOAD, rfcOn, rfcOp, cpe0,
                   readEntry, sent, accepted, txEvents, rxEvent, cancelled>>
    /\ UNCHANGED nonRadioVars
    /\ UNCHANGED rxqVars

\* RadioConfig::is_on.
is_on == Query("is_on", TRUE)

\* RadioConfig::busy: true for the values 1 and 2 of the status cell of
\* RFCore.  RFCore is not among the sources and nothing in the radio driver
\* writes the cell, so the status busy reads is any of idle (0), pending
\* (1), active (2) and done.
busy == \E status \in {0, 1, 2, StatusDone} : Query("busy", status \in {1, 2})

\* The co-processor finishes the transmission it runs and signals it with
\* one of the command-done flags.
RfcTxDone(flag) ==
    /\ rfcOp = "tx"
    /\ RfcEndOp({flag})
    /\ UNCHANGED <<tx_client, rx_client, schedule_powerdown, tx_buf, rx_buf,
                   TX_BUF, RX_PAYLOAD, rfcOn, readEntry, sent, accepted,
                   txEvents, rxEvent, cancelled, radioRet>>
    /\ UNCHANGED nonRadioVars
    /\ UNCHANGED rxqVars

\* The co-processor, receiving, once the flag of the frame before has been
\* served. It reads its current entry through the queue pointer of the
\* command, which points into a stack frame that is gone: the entry e it
\* arrives at is any entry of RX_BUF or a place outside it. A good frame of
\* length len fills e, which must read as pending when it is an entry, and
\* raises rx_ok or rx_entry_done; a frame with a CRC error is flushed and
\* raises rx_nok; a frame that finds e still finished raises rx_buf_full.
RfcRxFrame(flag, len, e) ==
    /\ rfcOp = "rx"
    /\ cpe0 \cap {"rx_ok", "rx_nok", "rx_buf_full", "rx_entry_done"} = {}
    /\ cpe0' = cpe0 \cup {flag}
    /\ rfcEntry' = e
    /\ IF flag \in {"rx_ok", "rx_entry_done"} /\ e \in Entries
       THEN /\ rxQueue[e] = "pending"
            /\ rxQueue' = [rxQueue EXCEPT ![e] = "finished"]
            /\ readEntry' = IF e = ReadIdx THEN len ELSE readEntry
       ELSE /\ (flag = "rx_buf_full" /\ e \in Entries)
                 => rxQueue[e] # "pending"
            /\ UNCHANGED <<rxQueue, readEntry>>
    /\ UNCHANGED rxDelivered
    /\ UNCHANGED <<tx_client, rx_client, schedule_powerdown, tx_buf, rx_buf,
                   TX_BUF, COMMAND_BUF, RX_PAYLOAD, rfcOn, rfcOp, sent,
                   accepted, txEvents, rxEvent, cancelled, radioRet>>
    /\ UNCHANGED nonRadioVars

\* The radio of the helium-feather board at the end of reset_handler:
\* Radio::new, the clients registered, and pa_type set to Skyworks before
\* the kernel loop starts.
RadioInit ==
    /\ tx_client = Some("virtual_radio")
    /\ rx_client = Some("virtual_radio")
    /\ schedule_powerdown = FALSE
    /\ tx_buf = None
    /\ rx_buf = None
    /\ TX_BUF = ZeroTxBuf
    /\ COMMAND_BUF = ZeroCmd
    /\ RX_PAYLOAD = 0
    /\ rfcOn = FALSE
    /\ rfcOp = "idle"
    /\ cpe0 = {}
    /\ readEntry = 0
    /\ sent = 0
    /\ accepted = <<>>
    /\ txEvents = <<>>
    /\ rxEvent = None
    /\ cancelled = FALSE
    /\ radioRet = [op |-> "", rc |-> "", buf |-> None]
    /\ power_client = Some("virtual_radio")
    /\ tx_power = TxPowerNew
    /\ pa_type = "Skyworks"
    /\ rfcMode = "Unset"
    /\ powerMode = None
    /\ powerSteps = None
    /\ handed = None
    /\ configured = TxPowerNew
    /\ rxQueue = ZeroQueue
    /\ rfcEntry = Stray
    /\ rxDelivered = {}

\* The transmit side: its client, the interrupt dispatch and the
\* co-processor.
RadioTxNext ==
    \/ \E o \in BootOutcomes : initialize(o)
    \/ \E b \in Bufs, n \in FrameLens, ok \in BOOLEAN : transmit(b, n, ok)
    \/ \E b \in Bufs, n \in FrameLens : subghz_transmit(b, n)
    \/ command_done
    \/ tx_done
    \/ \E ok \in BOOLEAN : send_stop_command(ok)
    \/ \E ok \in BOOLEAN : send_kill_command(ok)
    \/ \E f \in {"cmd_done", "last_cmd_done"} : RfcTxDone(f)

\* The receive side: its client, the interrupt dispatch and the
\* co-processor.
RadioRxNext ==
    \/ \E o \in BootOutcomes : initialize(o)
    \/ \E o \in BootOutcomes : reset(o)
    \/ \E ok \in BOOLEAN : receive(ok)
    \/ rx_ok
    \/ rx_nok
    \/ rx_buf_full
    \/ rx_entry_done
    \/ \E ok \in BOOLEAN : stop(ok)
    \/ \E ok \in BOOLEAN : send_stop_command(ok)
    \/ \E ok \in BOOLEAN : send_kill_command(ok)
    \/ is_on
    \/ busy
    \/ command_done
    \/ \E ok \in BOOLEAN : set_frequency(ok)
    \/ \E f \in {"rx_ok", "rx_nok", "rx_buf_full", "rx_entry_done"},
          n \in EntryLens, e \in Entries \cup {Stray} :
         RfcRxFrame(f, n, e)

\* The power side: the calls that power the co-processor up and down, set
\* the TX power and the frequency and run the radio tests, and a receive so
\* that a radio operation can be running.
RadioPowerNext ==
    \/ \E o \in PowerOutcomes : initialize(o)
    \/ \E t \in Tests, o \in BootOutcomes, ok \in BOOLEAN : run_tests(t, o, ok)
    \/ \E ok \in BOOLEAN : set_frequency(ok)
    \/ \E o \in PowerOutcomes : reset(o)
    \/ power_down
    \/ \E p \in TxPowers, ok \in BOOLEAN : set_tx_power(p, ok)
    \/ \E ok \in BOOLEAN : receive(ok)
    \/ is_on

\* The event word and the CPU at reset, with the given lines enabled at the
\* interrupt controller.
EvInitOn(lines) ==
    /\ EVENTS = {}
    /\ primask = Cpsie
    /\ nvic = lines
    /\ pending = {}
    /\ pc = "boot_read"
    /\ val = {}
    /\ event = None
    /\ ready = FALSE
    /\ irqs = 0
    /\ handled = <<>>
    /\ drainInit = {}
    /\ isrInDrain = FALSE
    /\ owed = {}
    /\ setRaised = {}
    /\ dup = {}

EvInit == EvInitOn(Sources)

EvNext ==
    \/ \E p \in Sources : Irq(p)
    \/ \E p \in Sources : TakePending(p)
    \/ SetEventFlagRead
    \/ SetEventFlagWrite(UART0)
    \/ KernelLoopStart
    \/ ServiceNext
    \/ ClearEventFlagRead
    \/ ClearEventFlagWrite
    \/ Dispatch
    \/ RunProcesses
    \/ AtomicEnter
    \/ SleepCheck
    \/ Wfi
    \/ AtomicLeave

(***************************************************************************)
(* capsules/src/helium/driver.rs: the Helium syscall driver, with          *)
(* UartDriver::allow of capsules/src/uart.rs.                              *)
(***************************************************************************)
\* The slices a process may share: slice 1 is as long as the address
\* SetAddress asks for, each further one a byte longer.
CfgLen == 10
Slices == 1 .. NumSlices
SliceLen(s) == CfgLen + s - 1

\* The callbacks a process may subscribe; one stands for all.
Callbacks == {1}

\* App::default
DefaultApp ==
    [tx_callback |-> None, rx_callback |-> None, app_cfg |-> None,
     app_write |-> None, app_read |-> None, pending_tx |-> None,
     tx_interval_ms |-> 400]

\* HeliumAllow, HeliumCallback, HeliumCommand
AllowRead == 0
AllowWrite == 1
AllowConfig == 2
RxCallback == 0
TxCallback == 1
SetNextTx == 6
SetAddress == 7
GetRadioStatus == 2

\* PayloadType::from_cmd: None (0x00), Packetizer (0x01), Cauterize (0x10)
PayloadTypes == {0, 1, 16}

\* What the device answers during one call into the driver: whether
\* prepare_data_frame returns a frame, what framing the payload returns, what
\* transmit returns, what a command relayed to the device returns, and what
\* is_on answers.
DevOutcomes ==
    [prepare : BOOLEAN, payload : {"SUCCESS", "ESIZE"},
     transmit : {"SUCCESS", "FAIL"}, rc : {"SUCCESS", "FAIL"},
     is_on : BOOLEAN]

\* The driver's state as a handler threads it through its calls, with the
\* refused grant entries and the scheduled callbacks of this handler.
HelState ==
    [app |-> app, kernel_tx |-> kernel_tx, current_app |-> current_app,
     devBusy |-> devBusy, nested |-> {}, cbs |-> {}]

\* Grant::enter(appid, closure), called while closures run inside the grants
\* of the processes in `entered`: whether the closure runs; otherwise enter
\* returns Err(AlreadyBorrowed).
GrantEnter(entered, appid) == appid \notin entered

\* The state after one call of enter whose closure leaves the state as it
\* is: a refused entry is recorded.
Entered(st, entered, appid) ==
    IF GrantEnter(entered, appid) THEN st
    ELSE [st EXCEPT !.nested = @ \cup {appid}]

\* self.app.enter(appid, |app, _| app.tx_callback.take().map(|cb|
\* cb.schedule(result, 0, 0)))
ScheduleTx(st, entered, appid, result) ==
    IF ~GrantEnter(entered, appid) \/ st.app[appid].tx_callback = None
    THEN Entered(st, entered, appid)
    ELSE [st EXCEPT !.app[appid].tx_callback = None,
                    !.cbs = @ \cup {<<appid, "tx", result>>}]

\* Helium::get_next_tx_if_idle: the first process, in the order of the
\* grant's iterator, whose closure runs and finds pending_tx set.
get_next_tx_if_idle(st, entered) ==
    LET found == {a \in Procs : GrantEnter(entered, a)
                                /\ st.app[a].pending_tx # None}
    IN  IF st.current_app # None \/ found = {} THEN None
        ELSE Some(CHOOSE a \in found : \A b \in found : a <= b)

\* The processes get_next_tx_if_idle tried to enter before it stopped.
Scanned(st, entered) ==
    LET next == get_next_tx_if_idle(st, entered)
    IN  IF st.current_app # None THEN {}
        ELSE IF next = None THEN Procs
        ELSE {a \in Procs : a <= TheOf(next)}

\* The state after get_next_tx_if_idle.
AfterScan(st, entered) ==
    [st EXCEPT !.nested =
        @ \cup {a \in Scanned(st, entered) : ~GrantEnter(entered, a)}]

\* Helium::perform_tx_sync: the state it leaves and the ReturnCode.
perform_tx_sync(st, entered, appid, dev) ==
    LET a == st.app[appid]
        taken == [st EXCEPT !.app[appid].pending_tx = None]
        framed == [taken EXCEPT !.kernel_tx = FALSE,
                                !.app[appid].app_write = None]
    IN  IF ~GrantEnter(entered, appid)
        THEN [st |-> Entered(st, entered, appid), rc |-> "AlreadyBorrowed"]
        ELSE IF a.pending_tx = None THEN [st |-> st, rc |-> "SUCCESS"]
        ELSE IF ~st.kernel_tx THEN [st |-> taken, rc |-> "ENOMEM"]
        ELSE IF ~dev.prepare THEN [st |-> taken, rc |-> "FAIL"]
        ELSE IF a.app_write = None THEN [st |-> framed, rc |-> "EINVAL"]
        ELSE IF dev.payload # "SUCCESS"
        THEN [st |-> framed, rc |-> dev.payload]
        ELSE IF dev.transmit = "SUCCESS"
        THEN [st |-> [framed EXCEPT !.devBusy = TRUE,
                                    !.current_app = Some(appid)],
              rc |-> "SUCCESS"]
        ELSE [st |-> [framed EXCEPT !.kernel_tx = TRUE], rc |-> dev.transmit]

\* Helium::perform_tx_async
perform_tx_async(st, entered, appid, dev) ==
    LET r == perform_tx_sync(st, entered, appid, dev)
    IN  IF r.rc # "SUCCESS" THEN ScheduleTx(r.st, entered, appid, r.rc)
        ELSE r.st

\* Helium::do_next_tx_async
do_next_tx_async(st, entered, dev) ==
    LET next == get_next_tx_if_idle(st, entered)
        st1 == AfterScan(st, entered)
    IN  IF next = None THEN st1
        ELSE perform_tx_async(st1, entered, TheOf(next), dev)

\* Helium::do_next_tx_sync
do_next_tx_sync(st, entered, new_appid, dev) ==
    LET next == get_next_tx_if_idle(st, entered)
        st1 == AfterScan(st, entered)
    IN  IF next = None THEN [st |-> st1, rc |-> "SUCCESS"]
        ELSE IF TheOf(next) = new_appid
        THEN perform_tx_sync(st1, entered, new_appid, dev)
        ELSE [st |-> perform_tx_async(st1, entered, TheOf(next), dev),
              rc |-> "SUCCESS"]

\* Helium::do_with_cfg(appid, len, closure) with a closure that returns
\* SUCCESS: the config slice is taken out of the App.
do_with_cfg(st, appid, len) ==
    LET cfg == st.app[appid].app_cfg
    IN  [st |-> [st EXCEPT !.app[appid].app_cfg = None],
         rc |-> IF cfg = None \/ SliceLen(TheOf(cfg)) # len THEN "EINVAL"
                ELSE "SUCCESS"]

\* The field of App an allow number of the Helium driver names.
AllowField(allow_num) ==
    CASE allow_num = AllowRead -> "app_read"
      [] allow_num = AllowWrite -> "app_write"
      [] allow_num = AllowConfig -> "app_cfg"

\* One call into the Helium driver: the state st and the ReturnCode rc it
\* ends with are stored, with the call's name and its caller and, for an
\* allow, the slice it replaced.
HeliumCall(name, appid, num, r) ==
    /\ helRet.rc # "panic"
    /\ app' = r.st.app
    /\ kernel_tx' = r.st.kernel_tx
    /\ current_app' = r.st.current_app
    /\ devBusy' = r.st.devBusy
    /\ helRet' = [op |-> name, appid |-> appid, num |-> num, rc |-> r.rc,
                  nested |-> r.st.nested, cbs |-> r.st.cbs,
                  old |-> IF name = "allow" /\ r.rc = "SUCCESS"
                          THEN app[appid][AllowField(num)] ELSE None]
    /\ UNCHANGED apps
    /\ UNCHANGED <<evVars, uVars, capVars, radVars, rxqVars, pwrVars, gpsVars>>

\* Helium::allow if allow(None) kept the slice the process shared before.
HeliumAllowKeepsSlice(appid, allow_num, slice) ==
    HeliumCall("allow", appid, allow_num,
        IF allow_num \in {AllowRead, AllowWrite, AllowConfig}
        THEN [st |-> IF slice = None THEN HelState
                     ELSE [HelState EXCEPT
                              !.app[appid][AllowField(allow_num)] = slice],
              rc |-> "SUCCESS"]
        ELSE [st |-> HelState, rc |-> "ENOSUPPORT"])

\* Helium::allow(appid, allow_num, slice)
HeliumAllow(appid, allow_num, slice) ==
    HeliumCall("allow", appid, allow_num,
        IF allow_num \in {AllowRead, AllowWrite, AllowConfig}
        THEN [st |-> [HelState EXCEPT
                         !.app[appid][AllowField(allow_num)] = slice],
              rc |-> "SUCCESS"]
        ELSE [st |-> HelState, rc |-> "ENOSUPPORT"])

\* Helium::subscribe(subscribe_num, callback, app_id)
HeliumSubscribe(subscribe_num, callback, app_id) ==
    HeliumCall("subscribe", app_id, subscribe_num,
        CASE subscribe_num = RxCallback ->
               [st |-> [HelState EXCEPT !.app[app_id].rx_callback = callback],
                rc |-> "SUCCESS"]
          [] subscribe_num = TxCallback ->
               [st |-> [HelState EXCEPT !.app[app_id].tx_callback = callback],
                rc |-> "SUCCESS"]
          [] OTHER -> [st |-> HelState, rc |-> "ENOSUPPORT"])

\* The SetNextTx arm of Helium::command: the closure runs inside the grant
\* of appid and calls do_next_tx_sync from there.
CommandSetNextTx(appid, payload_type, dev) ==
    IF app[appid].pending_tx # None THEN [st |-> HelState, rc |-> "EBUSY"]
    ELSE IF payload_type \notin PayloadTypes
    THEN [st |-> HelState, rc |-> "FAIL"]
    ELSE do_next_tx_sync(
             [HelState EXCEPT !.app[appid].pending_tx = Some(payload_type)],
             {appid}, appid, dev)

\* Helium::command(command_num, _addr, payload_type, appid)
HeliumCommand(command_num, payload_type, appid, dev) ==
    HeliumCall("command", appid, command_num,
        CASE command_num = 0 -> [st |-> HelState, rc |-> "SUCCESS"]
          [] command_num = GetRadioStatus ->
               [st |-> HelState,
                rc |-> IF dev.is_on THEN "SUCCESS" ELSE "EOFF"]
          [] command_num \in {1, 3, 4, 5} -> [st |-> HelState, rc |-> dev.rc]
          [] command_num = SetNextTx ->
               CommandSetNextTx(appid, payload_type, dev)
          [] command_num = SetAddress -> do_with_cfg(HelState, appid, CfgLen)
          [] OTHER -> [st |-> HelState, rc |-> "ENOSUPPORT"])

\* Helium::transmit_event(buf, result), called by the device when the frame
\* it holds has left: the buffer goes back to kernel_tx, the process in
\* current_app gets its callback, and the next pending transmission starts.
HeliumTransmitEvent(result, dev) ==
    /\ devBusy
    /\ LET st0 == [HelState EXCEPT !.kernel_tx = TRUE, !.devBusy = FALSE,
                                   !.current_app = None]
           st1 == IF current_app = None THEN st0
                  ELSE ScheduleTx(st0, {}, TheOf(current_app), result)
       IN  HeliumCall("transmit_event", 0, 0,
               [st |-> do_next_tx_async(st1, {}, dev), rc |-> result])

\* min(rbuf.len(), data_offset + data_len): the bytes receive_event copies
\* into the read slice s.
CopyLen(s, data_offset, data_len) ==
    IF SliceLen(s) < data_offset + data_len THEN SliceLen(s)
    ELSE data_offset + data_len

\* Helium::receive_event(buf, data_offset, data_len), buf being buf_len bytes
\* long: every process with a read slice, in the order of the grant, has the
\* slice taken and filled and, if it subscribed, its rx_callback taken and
\* scheduled with (0, 0, 0), which is ReturnCode::SUCCESS as a number.
\* copy_from_slice panics at the first slice that asks for more bytes than
\* buf holds.
HeliumReceiveEvent(buf_len, data_offset, data_len) ==
    LET got == {a \in Procs : app[a].app_read # None}
        short == {a \in got :
                    buf_len < CopyLen(TheOf(app[a].app_read),
                                      data_offset, data_len)}
        first_short == IF short = {} THEN NumProcs + 1
                ELSE CHOOSE a \in short : \A b \in short : a <= b
        called == {a \in got : a < first_short /\ app[a].rx_callback # None}
    IN  HeliumCall("receive_event", 0, 0,
            [st |-> [HelState EXCEPT
                        !.app = [a \in Procs |->
                                    IF a \in got /\ a < first_short
                                    THEN [app[a] EXCEPT !.app_read = None,
                                                        !.rx_callback = None]
                                    ELSE IF a = first_short
                                    THEN [app[a] EXCEPT !.app_read = None]
                                    ELSE app[a]],
                        !.cbs = {<<a, "rx", "SUCCESS">> : a \in called}],
             rc |-> IF short = {} THEN "" ELSE "panic"])

\* UartDriver::allow(appid, allow_num, slice)
UartDriverAllow(appid, allow_num, slice) ==
    /\ helRet.rc # "panic"
    /\ apps' = CASE allow_num = 1 ->
                      [apps EXCEPT ![appid].write_buffer = slice]
                 [] allow_num = 2 ->
                      [apps EXCEPT ![appid].read_buffer = slice]
                 [] OTHER -> apps
    /\ helRet' = [op |-> "uart_allow", appid |-> appid, num |-> allow_num,
                  rc |-> IF allow_num \in {1, 2} THEN "SUCCESS"
                         ELSE "ENOSUPPORT",
                  nested |-> {}, cbs |-> {},
                  old |-> CASE allow_num = 1 -> apps[appid].write_buffer
                            [] allow_num = 2 -> apps[appid].read_buffer
                            [] OTHER -> None]
    /\ UNCHANGED <<app, kernel_tx, current_app, devBusy>>
    /\ UNCHANGED <<evVars, uVars, capVars, radVars, rxqVars, pwrVars, gpsVars>>

\* Helium::new and Uart::new: no process has entered its grant, the kernel
\* buffer is in its cell.
HeliumInit ==
    /\ app = [a \in Procs |-> DefaultApp]
    /\ kernel_tx = TRUE
    /\ current_app = None
    /\ devBusy = FALSE
    /\ apps = [a \in Procs |-> [write_buffer |-> None, read_buffer |-> None]]
    /\ helOps = 0
    /\ helRet = [op |-> "", appid |-> 0, num |-> 0, rc |-> "",
                 nested |-> {}, cbs |-> {}, old |-> None]

\* Allow, subscribe and command numbers a process may pass: the defined
\* ones and one undefined; payload types: one defined and one undefined.
AllowNums == 0 .. 3
SubscribeNums == 0 .. 2
HelCmdNums == {0, GetRadioStatus, 3, SetNextTx, SetAddress, 9}
PayloadArgs == {0, 2}
OptSlices == {None} \cup {Some(s) : s \in Slices}
OptCallbacks == {None} \cup {Some(cb) : cb \in Callbacks}

\* The frames the device hands to receive_event: a header of two bytes
\* and a payload, in a buffer that holds them or one that is shorter.
RxFrames == [len : {4, 12}, data_offset : {2}, data_len : {2, 10}]

\* What the device answers, switched on, when at most one of its calls
\* fails.
DevAnswers ==
    {d \in DevOutcomes :
        /\ d.is_on
        /\ d.rc = d.transmit
        /\ (IF d.prepare THEN 0 ELSE 1)
             + (IF d.payload = "SUCCESS" THEN 0 ELSE 1)
             + (IF d.transmit = "SUCCESS" THEN 0 ELSE 1) <= 1}

\* One more call into the syscall drivers.
CountOp == helOps < MaxHelOps /\ helOps' = helOps + 1

\* The slices and callbacks of the syscall drivers: processes that allow,
\* subscribe and issue the commands that start no transmission, and a device
\* that receives frames, for a bounded number of calls.
HeliumNext ==
    \/ \E a \in Procs, n \in AllowNums, s \in OptSlices :
          HeliumAllow(a, n, s) /\ CountOp
    \/ \E a \in Procs, n \in SubscribeNums, cb \in OptCallbacks :
          HeliumSubscribe(n, cb, a) /\ CountOp
    \/ \E a \in Procs, n \in HelCmdNums \ {SetNextTx},
          dev \in {d \in DevOutcomes : /\ d.prepare /\ d.payload = "SUCCESS"
                                       /\ d.rc = d.transmit} :
          HeliumCommand(n, 0, a, dev) /\ CountOp
    \/ \E f \in RxFrames :
          HeliumReceiveEvent(f.len, f.data_offset, f.data_len) /\ CountOp
    \/ \E a \in Procs, n \in AllowNums, s \in OptSlices :
          UartDriverAllow(a, n, s) /\ CountOp

\* The transmit path of the Helium driver: processes that share a payload,
\* subscribe to the transmit callback and queue transmissions, and a device
\* that completes them, for any number of calls.
HeliumTxNext ==
    \/ \E a \in Procs, s \in {None, Some(1)} :
          HeliumAllow(a, AllowWrite, s) /\ UNCHANGED helOps
    \/ \E a \in Procs, cb \in OptCallbacks :
          HeliumSubscribe(TxCallback, cb, a) /\ UNCHANGED helOps
    \/ \E a \in Procs, t \in PayloadArgs, dev \in DevAnswers :
          HeliumCommand(SetNextTx, t, a, dev) /\ UNCHANGED helOps
    \/ \E r \in {"SUCCESS", "FAIL"}, dev \in DevAnswers :
          HeliumTransmitEvent(r, dev) /\ UNCHANGED helOps

\* The board platform: boot, the vector shims, and service_pending_events
\* called by the kernel loop; its next_pending is BoardServiceNext, which
\* decodes with the board's enum.  Nothing here masks interrupts, so a
\* request is never latched.
BoardNext ==
    \/ \E p \in BoardSources : Irq(p)
    \/ SetEventFlagRead
    \/ SetEventFlagWrite(BOARD_UART0)
    \/ KernelLoopStart
    \/ BoardServiceNext
    \/ ClearEventFlagRead
    \/ ClearEventFlagWrite
    \/ BoardDispatch

(***************************************************************************)
(* capsules/src/gps.rs: the GPS capsule on a UART of its own.              *)
(***************************************************************************)
\* What a TxRequest handed to the UART carries: one of the two configuration
\* sentences or the bytes of a process.
GpsContents == {"PMTK_SET_NMEA_OUTPUT_RMCGGA", "PMTK_SET_NMEA_UPDATE_1HZ", "APP"}

\* COMMAND
DRIVER_CHECK == 0
WRITESTR == 1
READLINE == 2

\* The capsule's state as handle_irq threads it through its steps.
GpsSt ==
    [state |-> gps_state, tx_request |-> gps_tx_request, uartTx |-> gpsUartTx,
     uartRx |-> gpsUartRx, handed |-> gpsHanded]

\* self.uart.transmit_buffer(tx): the UART arms the request.
GpsTransmitBuffer(g, what) ==
    [g EXCEPT !.uartTx = Some(what), !.handed = Append(@, what)]

\* handle_irq, the arm `if let Some(rx) = rx_complete`: the state advances,
\* the first sentence is sent if tx_request holds the request, and the
\* RxRequest is reset and armed again.
GpsRxComplete(g) ==
    LET g1 == CASE g.state = "Init" -> [g EXCEPT !.state = "ReceivedOne"]
                [] g.state = "ReceivedOne" ->
                     IF g.tx_request
                     THEN GpsTransmitBuffer(
                              [g EXCEPT !.state = "SentOne",
                                        !.tx_request = FALSE],
                              "PMTK_SET_NMEA_OUTPUT_RMCGGA")
                     ELSE [g EXCEPT !.state = "SentOne"]
                [] OTHER -> g
    IN  [g1 EXCEPT !.uartRx = TRUE]

\* handle_irq, the arm `if let Some(tx) = tx_complete`: in SentOne the
\* request is loaded with the second sentence and sent; otherwise the
\* completed request, which has nothing left to send, goes back to
\* tx_request.
GpsTxComplete(g) ==
    IF g.state = "SentOne"
    THEN GpsTransmitBuffer([g EXCEPT !.state = "Ready"],
                           "PMTK_SET_NMEA_UPDATE_1HZ")
    ELSE [g EXCEPT !.tx_request = TRUE]

\* One call into the capsule that ends in state g with ReturnCode rc.
GpsCall(name, g, rc) ==
    /\ gpsRet.rc # "panic"
    /\ Len(g.handed) <= MaxGpsTx
    /\ gps_state' = g.state
    /\ gps_tx_request' = g.tx_request
    /\ gpsUartTx' = g.uartTx
    /\ gpsUartRx' = g.uartRx
    /\ gpsHanded' = g.handed
    /\ gpsRet' = [op |-> name, rc |-> rc]
    /\ UNCHANGED <<evVars, uVars, capVars, radVars, rxqVars, helVars, pwrVars>>

\* Gps::set_space, called once by the board: the TxRequest goes into
\* tx_request and the RxRequest is armed.
GpsSetSpace ==
    /\ gpsRet.op = ""
    /\ GpsCall("set_space", [GpsSt EXCEPT !.tx_request = TRUE, !.uartRx = TRUE], "")
    /\ UNCHANGED tx_in_progress

\* Gps::handle_irq: the UART's handle_interrupt returns the completed
\* TxRequest (tx_complete) and the completed RxRequest (rx_complete), each
\* only if such a request was armed; the received line is served first.
GpsHandleIrq(tx_complete, rx_complete) ==
    /\ gpsRet.op # ""
    /\ tx_complete => gpsUartTx # None
    /\ rx_complete => gpsUartRx
    /\ LET g0 == [GpsSt EXCEPT
                    !.uartTx = IF tx_complete THEN None ELSE @,
                    !.uartRx = IF rx_complete THEN FALSE ELSE @]
           g1 == IF rx_complete THEN GpsRxComplete(g0) ELSE g0
           g2 == IF tx_complete THEN GpsTxComplete(g1) ELSE g1
       IN  GpsCall("handle_irq", g2, "")
    /\ UNCHANGED tx_in_progress

\* Gps::command(arg0, len, _, appid): COMMAND::from_usize(arg0).expect(..)
\* is a panic for an arg0 that names no command.
GpsCommand(arg0, appid) ==
    /\ gpsRet.op # ""
    /\ IF arg0 \notin {DRIVER_CHECK, WRITESTR, READLINE}
       THEN /\ GpsCall("command", GpsSt, "panic")
            /\ UNCHANGED tx_in_progress
       ELSE IF arg0 = WRITESTR /\ gps_tx_request
       THEN /\ GpsCall("command",
                       GpsTransmitBuffer([GpsSt EXCEPT !.tx_request = FALSE],
                                         "APP"),
                       "SUCCESS")
            /\ tx_in_progress' = Some(appid)
       ELSE /\ GpsCall("command", GpsSt, "SUCCESS")
            /\ UNCHANGED tx_in_progress

\* Gps::new
GpsInit ==
    /\ gps_state = "Init"
    /\ gps_tx_request = FALSE
    /\ tx_in_progress = None
    /\ gpsUartTx = None
    /\ gpsUartRx = FALSE
    /\ gpsHanded = <<>>
    /\ gpsRet = [op |-> "", rc |-> ""]

\* The GPS capsule: the board's set_space, the UART interrupts and the
\* commands of the processes, with the command numbers the capsule knows
\* and one it does not.
GpsNext ==
    \/ GpsSetSpace
    \/ \E t, r \in BOOLEAN : GpsHandleIrq(t, r)
    \/ \E c \in {DRIVER_CHECK, WRITESTR, READLINE, 3}, a \in Procs :
          GpsCommand(c, a)

\* The helium-feather board at the end of reset_handler, its event lines
\* numbered as events.rs numbers them.
Init == EvInit /\ UInit /\ CapInit /\ RadioInit /\ HeliumInit /\ GpsInit

\* The same board with its event lines numbered as its own enum numbers
\* them.
BoardInit ==
    /\ EvInitOn(BoardSources)
    /\ UInit /\ CapInit /\ RadioInit /\ HeliumInit /\ GpsInit

\* The launchxl board at the end of reset_handler: Radio::new, the clients
\* registered, pa_type as Radio::new made it, and run_tests(0) called once:
\* the steps of power_up, then test_radio_tx, whatever the co-processor
\* makes of them.
LaunchxlInit ==
    /\ EvInit /\ UInit /\ CapInit /\ HeliumInit /\ GpsInit
    /\ \E o \in BootOutcomes, ok \in BOOLEAN :
        /\ ok => o["enable"]
        /\ tx_client = Some("virtual_radio")
        /\ rx_client = Some("virtual_radio")
        /\ schedule_powerdown = FALSE
        /\ tx_buf = None
        /\ rx_buf = None
        /\ TX_BUF = ZeroTxBuf
        /\ COMMAND_BUF = [command_no |-> CmdPropTx, status |-> 0,
                          packet_len |-> TestPacketLen,
                          packet_pointer |-> Some(StackPacket)]
        /\ RX_PAYLOAD = 0
        /\ rfcOn = o["enable"]
        /\ rfcOp = IF ok THEN "tx" ELSE "idle"
        /\ cpe0 = {}
        /\ readEntry = 0
        /\ sent = 1
        /\ accepted = <<>>
        /\ txEvents = <<>>
        /\ rxEvent = None
        /\ cancelled = FALSE
        /\ radioRet = [op |-> "run_tests", rc |-> "", buf |-> None]
        /\ power_client = Some("virtual_radio")
        /\ tx_power = TxPowerNew
        /\ pa_type = "None"
        /\ rfcMode = "BLE"
        /\ powerMode = None
        /\ powerSteps = Some(o)
        /\ handed = Some([cmd |-> "CMD_SETUP", power |-> TxPowerNew])
        /\ configured = TxPowerNew
        /\ rxQueue = ZeroQueue
        /\ rfcEntry = Stray
        /\ rxDelivered = {}

\* The event dispatcher: boot, kernel loop, service loop and vector shims.
Spec == Init /\ [][EvNext]_vars

\* The UART transmit side under an arbitrary client.
SpecUartTx == Init /\ [][UartTxNext]_vars

\* The UART transmit side under a client that never aborts, with TX
\* interrupts delivered fairly and the transmitter running.
FairUartTx ==
    Init /\ [][ClientTxNext]_vars /\ WF_vars(HandleInterrupt) /\ WF_vars(HwTxDrain)

\* The UART receive side under an arbitrary client.
SpecUartRx == Init /\ [][UartRxNext]_vars

\* The UART driver under an arbitrary client of both directions.
SpecUart == Init /\ [][UartNext]_vars

\* The UART capsule on top of the UART driver.
SpecUartDriver == Init /\ [][DriverNext]_vars

\* The transmit side of the radio driver under an arbitrary client.
SpecRadioTx == Init /\ [][RadioTxNext]_vars

\* The transmit side with its interrupts dispatched and the co-processor
\* finishing what it runs.
FairRadioTx ==
    /\ Init /\ [][RadioTxNext]_vars
    /\ WF_vars(command_done) /\ WF_vars(tx_done)
    /\ WF_vars(\E f \in {"cmd_done", "last_cmd_done"} : RfcTxDone(f))

\* The receive side of the radio driver under an arbitrary client.
SpecRadioRx == Init /\ [][RadioRxNext]_vars

\* The power side of the radio driver, on either board.
SpecRadioPower == (Init \/ LaunchxlInit) /\ [][RadioPowerNext]_vars

\* The GPS capsule under arbitrary processes and UART traffic.
SpecGps == Init /\ [][GpsNext]_vars

\* The syscall drivers of the Helium radio and of the console.
SpecHelium == Init /\ [][HeliumNext]_vars

\* The transmit path of the Helium driver.
SpecHeliumTx == Init /\ [][HeliumTxNext]_vars

\* The event dispatcher of the board platform.
SpecBoard == BoardInit /\ [][BoardNext]_vars

\* The board platform with thread mode running.
FairBoard ==
    /\ BoardInit /\ [][BoardNext]_vars
    /\ WF_vars(SetEventFlagRead) /\ WF_vars(SetEventFlagWrite(BOARD_UART0))
    /\ WF_vars(KernelLoopStart) /\ WF_vars(BoardServiceNext)
    /\ WF_vars(ClearEventFlagRead) /\ WF_vars(ClearEventFlagWrite)
    /\ WF_vars(BoardDispatch)

(***************************************************************************)
(* Properties of the event dispatcher.                                     *)
(***************************************************************************)
\* The lowest set bit of a word, as an Option.
LowestSet(w) == IF w = {} THEN None ELSE {CHOOSE q \in w : \A r \in w : q <= r}

\* The elements of a set of priorities in ascending order.
RECURSIVE Ascending(_)
Ascending(S) ==
    IF S = {} THEN <<>>
    ELSE LET m == CHOOSE q \in S : \A r \in S : q <= r
         IN  <<m>> \o Ascending(S \ {m})

\* C1: set_event_flag is atomic with respect to interrupt preemption: when
\* the thread's set_event_flag(UART0) has returned, the bit of UART0 and the
\* bit of every ISR that ran set_event_flag meanwhile are set.
C1_NoSetLost ==
    pc = "boot_done" => (UART0 \in EVENTS /\ setRaised \subseteq EVENTS)

\* C2: clear_event_flag(p) clears exactly bit p: the word it writes is the
\* word it read with bit p cleared and every other bit as it was.
C2_ClearExactlyBitP ==
    [][(pc = "clear_write" /\ pc' = "dispatch")
         => \A p \in event : EVENTS' = val \ {p}]_vars

\* C3: no event is lost: when the dispatcher observes the event word as
\* empty, every priority an ISR has set has had its handler invoked since.
C3_NoEventLost ==
    [][(pc = "next_pending" /\ pc' = "procs") => owed = {}]_vars

\* C4: next_pending returns the numerically smallest priority whose bit is
\* set, None iff no bit is set, and leaves the event word as it was.
C4_NextPendingLowest ==
    [][(pc = "next_pending" /\ pc' # "next_pending")
         => (pc' # "panic" /\ event' = LowestSet(EVENTS) /\ EVENTS' = EVENTS)]_vars

\* UART0, I2C0 and GPIO were set before the drain and came out as GPIO,
\* UART0, I2C0.
C4_Witness == handled = <<GPIO, UART0, I2C0>> /\ ~isrInDrain

\* Thread positions after the service loop has returned.
AfterDrain == {"procs", "atomic_cpsid", "check", "wfi", "asleep", "atomic_cpsie"}
InDrain == {"next_pending", "clear_read", "clear_write", "dispatch"}

IsPrefix(s, t) == Len(s) <= Len(t) /\ s = SubSeq(t, 1, Len(s))

\* C5: with no ISR firing during the drain, the handlers run in ascending
\* order of priority index, and when the service loop returns the handler of
\* every initially pending priority has run exactly once, however often the
\* priority was raised.
C5_DrainInOrder ==
    ~isrInDrain =>
        /\ pc \in InDrain => IsPrefix(handled, Ascending(drainInit))
        /\ pc \in AfterDrain => (handled = Ascending(drainInit) /\ EVENTS = {})

\* A drain of two priorities, one of them raised twice before the drain
\* (by the thread and by its ISR), the only two ISRs having run before it.
C5_Witness ==
    /\ pc = "procs" /\ ~isrInDrain
    /\ irqs = 2 /\ dup = {UART0}
    /\ handled = <<GPIO, UART0>>

\* C6: atomic(f) leaves the interrupt-enable state as it was on entry: after
\* the atomic_read nested in the kernel loop's atomic section has returned,
\* interrupts are still disabled.
C6_NestedAtomicKeepsDisabled ==
    pc \in {"wfi", "asleep", "atomic_cpsie"} => primask = Cpsid

\* C7: the CPU sleeps only with an empty event word and no ready process.
C7_SleepOnlyWhenIdle ==
    pc = "asleep" => (EVENTS = {} /\ ~ready)

(***************************************************************************)
(* Properties of the UART driver.                                          *)
(***************************************************************************)
\* C8: transmit_buffer called while a TxRequest is armed returns Busy and
\* leaves the armed request, its index and the interrupt mask unchanged.
C8_RearmReturnsBusy ==
    [][\A t \in TxRequests :
         (tx # None /\ TransmitBuffer(t))
            => (uartRet' = "EBUSY" /\ tx' = tx /\ imsc' = imsc)]_vars

\* The bytes written to the data register for the TxRequest now or last
\* armed are its first `index` bytes, in order; it is returned as completed
\* at most once, and then all its bytes have been written, no request is
\* armed and the TX and end-of-transmission interrupts are disabled.
TxInOrder ==
    /\ tx # None =>
         LET t == TheOf(tx)
         IN  /\ t.buf = txBuf
             /\ t.index <= Len(txBuf)
             /\ drLog = SubSeq(txBuf, 1, t.index)
             /\ txDone = 0
    /\ txDone <= 1
    /\ txDone = 1 =>
         /\ tx = None
         /\ drLog = txBuf
         /\ imsc \cap {"TX", "EOT"} = {}
    /\ txComplete # None =>
         LET t == TheOf(txComplete)
         IN  /\ txDone = 1
             /\ t.buf = txBuf
             /\ t.index = Len(t.buf)

\* C9: for an armed TxRequest the bytes written to the data register are
\* exactly its bytes in order; it is returned as completed exactly once,
\* after the last byte, with TX and end-of-transmission interrupts disabled;
\* and under fair delivery of TX interrupts every request handed to the
\* driver is eventually returned as completed.
C9_TxInOrderAndCompletes ==
    /\ []TxInOrder
    /\ \A t \in TxRequests :
          (tx # None /\ TheOf(tx).buf = t.buf)
             ~> (txComplete # None /\ TheOf(txComplete).buf = t.buf)

\* 0-based position of the first '\n' of a stream that holds one.
FirstNl(stream) ==
    (CHOOSE k \in 1 .. Len(stream) :
        stream[k] = NL /\ \A i \in 1 .. (k - 1) : stream[i] # NL) - 1
HasNl(stream) == \E k \in 1 .. Len(stream) : stream[k] = NL

\* What a received newline does, but for the index of the returned request:
\* a request that has consumed a '\n' is no longer armed; the call that
\* consumed it returns the request completed with newline_terminated set,
\* and nothing after the '\n' was consumed.
NewlineCompletes ==
    /\ rx # None => ~HasNl(rxStream)
    /\ (rxComplete # None /\ HasNl(rxStream)) =>
         /\ rx = None
         /\ TheOf(rxComplete).new_line_return
         /\ Len(rxStream) = FirstNl(rxStream) + 1
         /\ FirstNl(rxStream) < TheOf(rxComplete).cap
         /\ imsc \cap {"RX", "RX_TIMEOUT"} = {}

\* C10: a '\n' at position j < c of the stream received into an RxRequest
\* of capacity c completes it: the call that consumed the '\n' returns the
\* request with newline_terminated = true and index = j + 2, its buffer
\* holding the stream up to the '\n' and then a '\0'; the request is no
\* longer armed and nothing after the '\n' was consumed into it.
C10_NewlineIndexJPlus2 ==
    /\ NewlineCompletes
    /\ (rxComplete # None /\ HasNl(rxStream)) =>
         /\ RxIndex(TheOf(rxComplete)) = FirstNl(rxStream) + 2
         /\ TheOf(rxComplete).buf = rxStream \o <<NUL>>

\* A request of capacity 3 completed by a '\n' in its last place, j = 2:
\* its index is 4, and a byte that followed the '\n' is still in the FIFO.
C10_Witness ==
    /\ rxComplete # None
    /\ TheOf(rxComplete).cap = 3
    /\ rxStream = <<65, 65, NL>>
    /\ RxIndex(TheOf(rxComplete)) = 4
    /\ rxFifo # <<>>

\* C11 as stated: after handle_interrupt has consumed k <= c bytes, none of
\* them '\n', into an RxRequest of capacity c, the request is still armed
\* with index = k, is not returned as completed and RX interrupts stay
\* enabled.
C11_NoNewlineStaysArmed ==
    [][(rx # None /\ HandleInterrupt /\ ~HasNl(rxStream'))
         => /\ rx' # None
            /\ RxIndex(TheOf(rx')) = Len(rxStream')
            /\ rxComplete' = None
            /\ {"RX", "RX_TIMEOUT"} \subseteq imsc']_vars

\* C11 amended: that holds for k < c, where handle_interrupt leaves the RX
\* interrupts as they are, and while the request stays armed only a
\* configure that accepts its parameters masks them; with the c-th byte the
\* buffer is full and the request is returned as completed with index = c
\* and newline_terminated = false, RX interrupts disabled.
C11_NoNewlineArmedUntilFull ==
    /\ [][(rx # None /\ HandleInterrupt /\ ~HasNl(rxStream'))
            => LET c == TheOf(rx).cap
                   k == Len(rxStream')
               IN  /\ k <= c
                   /\ k < c =>
                        /\ rx' # None
                        /\ TheOf(rx').buf = rxStream'
                        /\ rxComplete' = None
                        /\ imsc' \cap {"RX", "RX_TIMEOUT"}
                             = imsc \cap {"RX", "RX_TIMEOUT"}
                   /\ k = c =>
                        /\ rx' = None
                        /\ rxComplete' # None
                        /\ TheOf(rxComplete').buf = rxStream'
                        /\ ~TheOf(rxComplete').new_line_return
                        /\ imsc' \cap {"RX", "RX_TIMEOUT"} = {}]_vars
    /\ [][(/\ rx' # None
           /\ rx # None => {"RX", "RX_TIMEOUT"} \subseteq imsc
           /\ ~(\E params \in Parameters : Configure(params)))
            => {"RX", "RX_TIMEOUT"} \subseteq imsc']_vars

\* handle_interrupt has left a request of capacity 3 armed with two bytes.
C11_Witness ==
    /\ lastCall.op = "handle_interrupt"
    /\ rx # None
    /\ TheOf(rx).cap = 3
    /\ TheOf(rx).buf = <<65, 65>>
    /\ rxStream = <<65, 65>>
    /\ {"RX", "RX_TIMEOUT"} \subseteq imsc

\* C12: receive_buffer called while an RxRequest is armed or a word receive
\* is pending returns Busy and leaves the armed request and the interrupt
\* mask as they were; otherwise it arms the request and enables the RX and
\* RX-timeout interrupts.
C12_ReceiveBufferBusy ==
    [][\A r \in RxRequests :
         ReceiveBuffer(r) =>
            IF rx # None \/ receiving_word
            THEN uartRet' = "EBUSY" /\ rx' = rx /\ imsc' = imsc
            ELSE /\ uartRet' = "SUCCESS"
                 /\ rx' = Some(r)
                 /\ {"RX", "RX_TIMEOUT"} \subseteq imsc']_vars

\* receive_buffer was refused while a request holding one byte is armed.
C12_Witness ==
    /\ lastCall.op = "receive_buffer"
    /\ uartRet = "EBUSY"
    /\ rx # None
    /\ RxIndex(TheOf(rx)) = 1

\* C13: transmit_abort and receive_abort return the armed request of their
\* direction, or None, and leave none armed; handle_interrupt with no
\* request armed in a direction reports no completion and moves no byte in
\* that direction; and right after a request was aborted a new one of that
\* direction is armed successfully.
C13_AbortCancels ==
    /\ [][TransmitAbort => (lastCall'.ret = tx /\ tx' = None)]_vars
    /\ [][ReceiveAbort => (lastCall'.ret = rx /\ rx' = None)]_vars
    /\ [][(tx = None /\ HandleInterrupt)
            => (tx' = None /\ txComplete' = None
                /\ drLog' = drLog /\ txFifo' = txFifo)]_vars
    /\ [][(rx = None /\ HandleInterrupt)
            => (rx' = None /\ rxComplete' = None
                /\ rxFifo' = rxFifo /\ rxStream' = rxStream)]_vars
    /\ [][\A t \in TxRequests :
            (lastCall.op = "transmit_abort" /\ lastCall.ret # None
             /\ TransmitBuffer(t))
               => (uartRet' = "SUCCESS" /\ tx' # None
                   /\ TheOf(tx').buf = t.buf)]_vars
    /\ [][\A r \in RxRequests :
            (lastCall.op = "receive_abort" /\ lastCall.ret # None
             /\ ReceiveBuffer(r))
               => (uartRet' = "SUCCESS" /\ rx' = Some(r))]_vars

\* receive_abort has returned a request holding one byte while a byte
\* waits in the RX FIFO.
C13_Witness ==
    /\ lastCall.op = "receive_abort"
    /\ lastCall.ret # None
    /\ RxIndex(TheOf(lastCall.ret)) = 1
    /\ rx = None
    /\ rxFifo # <<>>

(***************************************************************************)
(* Properties of the UART capsule.                                         *)
(***************************************************************************)
\* C14: a transmit command (command 1) issued while no transmission is in
\* flight returns Success; issued while one is in flight it returns Busy and
\* leaves the transmission in flight as it is.
C14_OverlappedTx ==
    [][\A p \in Procs, len \in 0 .. MaxTxLen :
         Command(p, 1, len) =>
            IF tx = None
            THEN cmdRet'[p] = "SUCCESS"
            ELSE cmdRet'[p] = "EBUSY" /\ tx' = tx]_vars

\* C15: with two clients that always report a pending transmission, the
\* get_tx calls that arm the peripheral alternate between the clients, and
\* tx_complete is delivered to the client that owned the completed request.
C15_MuxAlternates ==
    /\ Len(served) = 2 => served[1] # served[2]
    /\ delivered # <<>> => delivered[1] = delivered[2]

(***************************************************************************)
(* Properties of the radio driver.                                         *)
(***************************************************************************)
\* C16: the buffer of a transmit that returned Success stays in the driver
\* until a command-done event, on which transmit_event is called once with
\* that buffer and leaves the driver idle; and every buffer the driver holds
\* is eventually returned that way.
C16_TransmitEventReturnsBuffer ==
    /\ [][\A b \in Bufs :
            (tx_buf = Some(b) /\ tx_buf' # tx_buf) =>
                /\ command_done \/ tx_done
                /\ tx_buf' = None
                /\ Len(txEvents') = Len(txEvents) + 1
                /\ txEvents'[Len(txEvents')].buf = b]_vars
    /\ \A b \in Bufs :
          (tx_buf = Some(b)) ~> (tx_buf = None /\ txEvents # <<>>
                                  /\ txEvents[Len(txEvents)].buf = b)

\* A transmit whose buffer transmit_event has not returned yet.
TxInFlight == Len(accepted) > Len(txEvents)

\* What a transmit that changes nothing but its return value leaves alone: no
\* command is handed to the co-processor, and tx_buf, the staging buffer and
\* the command record are as before.
TransmitTouchesNothing ==
    /\ sent' = sent
    /\ rfcOp' = rfcOp
    /\ tx_buf' = tx_buf
    /\ TX_BUF' = TX_BUF
    /\ COMMAND_BUF' = COMMAND_BUF

\* C17, as stated: transmit called while a transmit is in flight returns
\* (Busy, Some(buf)) with the caller's buffer, whatever the frame length,
\* and touches nothing.
C17_BusyWhileInFlightAnyLen ==
    [][\A b \in Bufs, n \in FrameLens, ok \in BOOLEAN :
         (TxInFlight /\ transmit(b, n, ok)) =>
            /\ radioRet' = [op |-> "transmit", rc |-> "EBUSY", buf |-> Some(b)]
            /\ TransmitTouchesNothing]_vars

\* C17, amended: transmit called with a frame length of at most 240 while a
\* transmit is in flight returns (Busy, Some(buf)) with the caller's buffer
\* and touches nothing; with a longer frame it returns (NoSupport,
\* Some(buf)) and touches nothing either.
C17_BusyWhileInFlight ==
    [][\A b \in Bufs, n \in FrameLens, ok \in BOOLEAN :
         (TxInFlight /\ transmit(b, n, ok)) =>
            /\ radioRet' = [op |-> "transmit",
                            rc |-> IF n <= MaxFrameLen THEN "EBUSY" ELSE "ENOSUPPORT",
                            buf |-> Some(b)]
            /\ TransmitTouchesNothing]_vars

\* A transmit has just been refused as busy while another buffer is in
\* flight.
C17_Witness ==
    /\ TxInFlight
    /\ tx_buf # None
    /\ radioRet.op = "transmit"
    /\ radioRet.rc = "EBUSY"
    /\ radioRet.buf # None
    /\ radioRet.buf # tx_buf

\* C18: transmit with a frame length above 240 returns (NoSupport,
\* Some(buf)) with the caller's buffer, hands no command to the co-processor
\* and leaves tx_buf, the staging buffer and the command record as they
\* were, in either driver; a frame length of exactly 240 is accepted by a
\* driver that has no transmit in flight.
C18_OversizeRefused ==
    [][\A b \in Bufs, n \in FrameLens, ok \in BOOLEAN :
         /\ (n > MaxFrameLen /\ (transmit(b, n, ok) \/ subghz_transmit(b, n))) =>
               /\ radioRet'.rc = "ENOSUPPORT"
               /\ radioRet'.buf = Some(b)
               /\ TransmitTouchesNothing
         /\ (n = MaxFrameLen /\ ~TxInFlight
                /\ (transmit(b, n, ok) \/ subghz_transmit(b, n))) =>
               radioRet'.rc = "SUCCESS"]_vars

\* C19: a buffer that was in flight when a stop or kill command was
\* acknowledged is handed to transmit_event with a status other than
\* Success.
C19_CancelledTxNotSuccess ==
    \A i \in 1 .. Len(txEvents) :
        txEvents[i].cancelled => txEvents[i].result # "SUCCESS"

\* C20: the receive_event called on an rx_nok event carries crc_valid =
\* false, and a receive_event that carries crc_valid = true was called on an
\* rx_ok event.
C20_CrcValidOnlyOnRxOk ==
    \A e \in rxEvent :
        /\ e.ev = "rx_nok" => ~e.crc_valid
        /\ e.crc_valid => e.ev = "rx_ok"

\* C21: the receive_event called on an rx_ok event carries the RX_PAYLOAD
\* buffer, crc_valid = true and a frame length equal to the length field of
\* the queue entry rx_ok copied, which is the number of bytes in RX_PAYLOAD.
C21_RxOkFrameLenIsEntryLen ==
    \A e \in rxEvent :
        e.ev = "rx_ok" =>
            /\ e.buf = "RX_PAYLOAD"
            /\ e.crc_valid
            /\ e.frame_len = RX_PAYLOAD

\* C22: when the radio is powered up, every queue entry whose frame has been
\* handed to the RxClient has been returned to pending.
C22_DeliveredEntryReturned ==
    [][(\E o \in PowerOutcomes : initialize(o) \/ reset(o)) =>
          \A i \in rxDelivered : rxQueue[i] = "pending"]_vars

(***************************************************************************)
(* Properties of the syscall drivers.                                      *)
(***************************************************************************)
\* C24: while current_app is set, SetNextTx from any other process returns
\* Busy and leaves that process's pending_tx, the transmission in flight and
\* current_app as they were.
C24_OtherProcessGetsBusy ==
    [][\A a \in Procs, t \in PayloadArgs, dev \in DevAnswers :
          (/\ current_app # None
           /\ a \notin current_app
           /\ HeliumCommand(SetNextTx, t, a, dev))
          => /\ helRet'.rc = "EBUSY"
             /\ app'[a].pending_tx = app[a].pending_tx
             /\ current_app' = current_app
             /\ devBusy' = devBusy
             /\ kernel_tx' = kernel_tx]_vars

\* The slices of the other slots of process a and of every other process,
\* in both drivers.
OtherSlots(driver, a, field) ==
    <<[b \in Procs |->
          [f \in DOMAIN app[b] |->
              IF driver = "helium" /\ b = a /\ f = field THEN None
              ELSE app[b][f]]],
      [b \in Procs |->
          [f \in DOMAIN apps[b] |->
              IF driver = "uart" /\ b = a /\ f = field THEN None
              ELSE apps[b][f]]]>>

\* C25: an allow with a known slot number leaves exactly the slice passed
\* in the slot (the new one after Some, none after None), whatever the slot
\* held; an allow with an unknown slot number returns NoSupport; and an
\* allow changes no other slot of the process and no slot of another
\* process.
C25_AllowReplacesSlot ==
    [][/\ \A a \in Procs, n \in AllowNums, s \in OptSlices :
            (helRet'.op = "allow" /\ helRet'.appid = a /\ helRet'.num = n
             /\ HeliumAllow(a, n, s)) =>
                IF n \in {AllowRead, AllowWrite, AllowConfig}
                THEN /\ helRet'.rc = "SUCCESS"
                     /\ app'[a][AllowField(n)] = s
                     /\ OtherSlots("helium", a, AllowField(n))'
                            = OtherSlots("helium", a, AllowField(n))
                ELSE /\ helRet'.rc = "ENOSUPPORT"
                     /\ <<app, apps>>' = <<app, apps>>
       /\ \A a \in Procs, n \in AllowNums, s \in OptSlices :
            (helRet'.op = "uart_allow" /\ helRet'.appid = a /\ helRet'.num = n
             /\ UartDriverAllow(a, n, s)) =>
                LET f == IF n = 1 THEN "write_buffer" ELSE "read_buffer"
                IN  IF n \in {1, 2}
                    THEN /\ helRet'.rc = "SUCCESS"
                         /\ apps'[a][f] = s
                         /\ OtherSlots("uart", a, f)' = OtherSlots("uart", a, f)
                    ELSE /\ helRet'.rc = "ENOSUPPORT"
                         /\ <<app, apps>>' = <<app, apps>>]_vars

\* A second allow on a slot has replaced the slice of the first by another
\* one.
C25_Witness ==
    /\ helRet.op = "allow"
    /\ helRet.rc = "SUCCESS"
    /\ helRet.old # None
    /\ app[helRet.appid][AllowField(helRet.num)] # None
    /\ app[helRet.appid][AllowField(helRet.num)] # helRet.old

\* C26: a slice shared with allow stays in its slot, whatever the driver
\* does, until the owning process issues a new allow on that slot.
C26_SliceStaysUntilNewAllow ==
    [][\A a \in Procs, n \in {AllowRead, AllowWrite, AllowConfig} :
          app'[a][AllowField(n)] # app[a][AllowField(n)]
          => /\ helRet'.op = "allow"
             /\ helRet'.appid = a
             /\ helRet'.num = n]_vars

(***************************************************************************)
(* Properties of the service loops and of the vector shims.                *)
(***************************************************************************)
\* C28: after every handler returns the dispatcher calls next_pending again;
\* it never goes on with an event it read before the handler ran.
C28_NextPendingAfterEveryHandler ==
    [][(Dispatch \/ BoardDispatch) => pc' \in {"next_pending", "panic"}]_vars

\* C29: once no ISR fires any more, every call of the service loop returns,
\* and has_event() is false when it does.
C29_ServiceLoopTerminates ==
    (pc = "next_pending") ~> (pc = "procs" /\ ~has_event(EVENTS))

\* The vector shim of source p runs in this step.
ShimRuns(p) == (Irq(p) /\ primask = Cpsie) \/ TakePending(p)

\* C30: the shim of a source runs only with its line enabled and returns
\* with the line disabled, and a disabled line is enabled again only by the
\* thread-mode handler of its source; so the shim of a source does not run
\* again before its handler has started.
C30_LineDisabledUntilHandler ==
    [][\A p \in Sources \cup BoardSources :
          /\ ShimRuns(p) => (p \in nvic /\ p \notin nvic')
          /\ (p \notin nvic /\ p \in nvic')
             => (pc = "dispatch" /\ event = Some(p))]_vars

(***************************************************************************)
(* Properties of the event word, the radio power-up and the capsules.      *)
(***************************************************************************)
\* C32: a handle_interrupt call that serves an armed RxRequest never moves
\* its index back nor past its capacity, and when the index reaches the
\* capacity the request is returned as the completed RxRequest of that
\* call, un-armed, with the RX and RX-timeout interrupts disabled.
C32_FullRequestCompletes ==
    [][(rx # None /\ HandleInterrupt)
         => LET before == TheOf(rx)
                after == IF rx' # None THEN TheOf(rx') ELSE TheOf(rxComplete')
            IN  /\ rx' # None \/ rxComplete' # None
                /\ after.cap = before.cap
                /\ RxIndex(before) <= RxIndex(after)
                /\ SubSeq(after.buf, 1, RxIndex(before)) = before.buf
                /\ RxIndex(after) <= after.cap
                /\ RxIndex(after) = after.cap =>
                     /\ RxRequestCompleted(after)
                     /\ rx' = None
                     /\ rxComplete' = Some(after)
                     /\ imsc' \cap {"RX", "RX_TIMEOUT"} = {}]_vars

\* C33: while the co-processor runs a radio operation, a receive call leaves
\* the command record and the RX data queue the running command points to as
\* they are.
C33_RunningCommandUntouched ==
    [][(rfcOp # "idle" /\ \E ok \in BOOLEAN : receive(ok))
         => /\ COMMAND_BUF' = COMMAND_BUF
            /\ rxQueue' = rxQueue
            /\ readEntry' = readEntry]_vars

\* C34: after an initialize or reset in which a step of the power-up
\* failed, the co-processor domain is powered down, the caller has been
\* told Fail, and the power client has not been told the radio is on.
C34_FailedPowerUpPowersDown ==
    (/\ radioRet.op \in {"initialize", "reset"}
     /\ \E o \in powerSteps : \E s \in PowerStep : ~o[s])
      => /\ ~rfcOn
         /\ radioRet.rc = "FAIL"
         /\ powerMode # Some(TRUE)

\* C35: initialize, whose power_up begins with set_mode, is called only
\* while the co-processor is powered down.
C35_SetModeOnlyWhenOff ==
    [][(\E o \in PowerOutcomes : initialize(o)) => ~rfcOn]_vars

\* C40: with the Skyworks amplifier the TX power value last handed to the
\* co-processor, by CMD_SETUP or by direct command 0x0010, is the configured
\* value capped at 0x504D; with the other amplifiers it is the configured
\* value, and set_pa_restriction changes no value for them.
C40_SkyworksPowerCapped ==
    \A h \in handed :
        IF pa_type = "Skyworks"
        THEN /\ h.power <= 20557
             /\ h.power = IF configured > 20557 THEN 20557 ELSE configured
        ELSE h.power = configured
    /\ \A power \in TxPowers, pa \in PaTypes \ {"Skyworks"} :
          set_pa_restriction(power, pa) = power

\* With the Skyworks amplifier, set_tx_power was called with 0x504E and a
\* later power-up has handed 0x504D to CMD_SETUP.
C40_Witness ==
    /\ pa_type = "Skyworks"
    /\ configured = 20558
    /\ radioRet.op = "reset"
    /\ handed = Some([cmd |-> "CMD_SETUP", power |-> 20557])

\* The process a round-robin scan that starts after process p reaches
\* first among the processes in pend.
RoundRobinAfter(p, pend) ==
    CHOOSE a \in pend :
        \A b \in pend : (a - p - 1) % NumProcs <= (b - p - 1) % NumProcs

\* C36: when transmit_event completes the transmission of process p and
\* starts the next one, the process started is the first one with a pending
\* transmission in the round-robin order that begins after p.
C36_NextTxRoundRobin ==
    [][(/\ current_app # None
        /\ current_app' # None
        /\ \E r \in {"SUCCESS", "FAIL"}, dev \in DevAnswers :
              HeliumTransmitEvent(r, dev))
         => TheOf(current_app') =
              RoundRobinAfter(TheOf(current_app),
                              {a \in Procs : app[a].pending_tx # None})]_vars

\* C37: a SetNextTx with a valid payload type, issued by process p while no
\* transmission is in flight and no transmission is pending, returns Invalid
\* if p has no write slice and the device can build the frame; with a write
\* slice, when it returns Success, p is current_app, its pending_tx is
\* consumed and the kernel TX buffer is with the device.
C37_SetNextTxStartsOwnTx ==
    [][\A p \in Procs, t \in PayloadArgs \cap PayloadTypes, dev \in DevAnswers :
         (/\ current_app = None
          /\ \A a \in Procs : app[a].pending_tx = None
          /\ HeliumCommand(SetNextTx, t, p, dev))
           => IF app[p].app_write = None
              THEN dev.prepare => helRet'.rc = "EINVAL"
              ELSE helRet'.rc = "SUCCESS" =>
                     /\ current_app' = Some(p)
                     /\ app'[p].pending_tx = None
                     /\ ~kernel_tx'
                     /\ devBusy']_vars

\* C38: whenever no transmission is in flight the kernel TX buffer is in
\* kernel_tx, and current_app is set only while the device holds the buffer.
C38_KernelBufferHeld ==
    /\ current_app = None => kernel_tx
    /\ current_app # None => (devBusy /\ ~kernel_tx)

\* The number of times the GPS capsule handed `what` to the UART.
GpsHandedCount(what) ==
    Cardinality({i \in 1 .. Len(gpsHanded) : gpsHanded[i] = what})

\* C39: once the GPS capsule is Ready, each configuration sentence has been
\* handed to the UART exactly once, PMTK_SET_NMEA_OUTPUT_RMCGGA before
\* PMTK_SET_NMEA_UPDATE_1HZ, and an RxRequest is armed after every call.
C39_ReadyAfterBothSentences ==
    /\ gpsRet.op # "" => gpsUartRx
    /\ gps_state = "Ready" =>
         /\ GpsHandedCount("PMTK_SET_NMEA_OUTPUT_RMCGGA") = 1
         /\ GpsHandedCount("PMTK_SET_NMEA_UPDATE_1HZ") = 1
         /\ \E i, j \in 1 .. Len(gpsHanded) :
               /\ i < j
               /\ gpsHanded[i] = "PMTK_SET_NMEA_OUTPUT_RMCGGA"
               /\ gpsHanded[j] = "PMTK_SET_NMEA_UPDATE_1HZ"

====
